---------------------------- MODULE Spec2Model ----------------------------
(***************************************************************************)
(* The ReAct orchestration loop of the Bob assistant                       *)
(* (backend/app/agents/ai_agent.py): keyword classification, response      *)
(* cache, retry wrapper around the completion endpoint, free-text parsing  *)
(* of the completion, tool dispatch and the verification of a Final        *)
(* Answer.                                                                 *)
(*                                                                         *)
(* Texts are sequences of one-character strings, so that lower(), strip(), *)
(* substring tests, split() and the regular expressions of the code are    *)
(* computed as Python computes them.                                        *)
(***************************************************************************)
EXTENDS Integers, Sequences, FiniteSets, TLC

(***************************************************************************)
(* Text primitives (Python str methods and the re patterns of the agent).  *)
(***************************************************************************)
UpperLetters ==
    <<"A","B","C","D","E","F","G","H","I","J","K","L","M",
      "N","O","P","Q","R","S","T","U","V","W","X","Y","Z">>

LowerLetters ==
    <<"a","b","c","d","e","f","g","h","i","j","k","l","m",
      "n","o","p","q","r","s","t","u","v","w","x","y","z">>

\* str.lower() on one character
LowerChar(c) ==
    IF \E i \in 1..26 : UpperLetters[i] = c
    THEN LowerLetters[CHOOSE i \in 1..26 : UpperLetters[i] = c]
    ELSE c

\* str.lower()
Lower(t) == [i \in 1..Len(t) |-> LowerChar(t[i])]

\* the characters str.strip() removes and the pattern \s matches
IsSpace(c) == c \in {" ", "\n", "\t", "\r"}

SetMin(S) == CHOOSE x \in S : \A y \in S : x <= y

SetMax(S) == CHOOSE x \in S : \A y \in S : x >= y

\* str.strip()
Strip(t) ==
    LET keep == {i \in 1..Len(t) : ~IsSpace(t[i])}
    IN  IF keep = {} THEN <<>> ELSE SubSeq(t, SetMin(keep), SetMax(keep))

\* str.strip(chars)
StripChars(t, chars) ==
    LET keep == {i \in 1..Len(t) : t[i] \notin chars}
    IN  IF keep = {} THEN <<>> ELSE SubSeq(t, SetMin(keep), SetMax(keep))

\* sub occurs in t at position i
StartsAt(t, sub, i) ==
    /\ i >= 1
    /\ i + Len(sub) - 1 <= Len(t)
    /\ SubSeq(t, i, i + Len(sub) - 1) = sub

\* the positions at which sub occurs in t
Occurrences(t, sub) == {i \in 1..Len(t) : StartsAt(t, sub, i)}

\* the Python test `sub in t` (sub is never empty here)
Contains(t, sub) == Occurrences(t, sub) # {}

\* t.split(sep)[-1]: the text after the last occurrence of sep (the markers
\* split on here cannot overlap themselves, so the last piece of the
\* left-to-right split starts after the last occurrence)
AfterLast(t, sep) ==
    IF Occurrences(t, sep) = {} THEN t
    ELSE SubSeq(t, SetMax(Occurrences(t, sep)) + Len(sep), Len(t))

\* re.split(r'(a|b)', t)[0]: the text before the first occurrence of any
\* of the separators
BeforeFirst(t, seps) ==
    LET occ == UNION {Occurrences(t, s) : s \in seps}
    IN  IF occ = {} THEN t ELSE SubSeq(t, 1, SetMin(occ) - 1)

\* ", ".join(parts)
RECURSIVE Join(_, _)
Join(parts, sep) ==
    IF parts = <<>> THEN <<>>
    ELSE IF Len(parts) = 1 THEN parts[1]
    ELSE parts[1] \o sep \o Join(Tail(parts), sep)

\* t.split(sep)
RECURSIVE Split(_, _)
Split(t, sep) ==
    IF Occurrences(t, sep) = {} THEN <<t>>
    ELSE <<SubSeq(t, 1, SetMin(Occurrences(t, sep)) - 1)>> \o
         Split(SubSeq(t, SetMin(Occurrences(t, sep)) + Len(sep), Len(t)), sep)

\* the value `x in xs` of a Python list test
InList(x, xs) == \E i \in 1..Len(xs) : xs[i] = x

(***************************************************************************)
(* String literals of the agent.                                           *)
(***************************************************************************)
FinalAnswerMarker == <<"F","i","n","a","l"," ","A","n","s","w","e","r",":">>

ThoughtMarker == <<"T","h","o","u","g","h","t",":">>

ActionMarker == <<"A","c","t","i","o","n",":">>

ActionInputMarker == <<"A","c","t","i","o","n"," ","I","n","p","u","t",":">>

kw_email == <<"e","m","a","i","l">>

kw_mail == <<"m","a","i","l">>

kw_weather == <<"w","e","a","t","h","e","r">>

name_send_email == <<"s","e","n","d","_","e","m","a","i","l">>

name_get_weather == <<"g","e","t","_","w","e","a","t","h","e","r">>

ObservationPrefix == <<"\n","O","b","s","e","r","v","a","t","i","o","n",":"," ">>

Newline == <<"\n">>

EmailNotUsedObservation ==
    <<"\n","O","b","s","e","r","v","a","t","i","o","n",":"," ","E","R","R","O","R"," ","-"," ",
      "Y","o","u"," ","s","a","i","d"," ","y","o","u"," ","s","e","n","t"," ","a","n"," ","e",
      "m","a","i","l"," ","b","u","t"," ","y","o","u"," ","d","i","d","n","'","t"," ","u","s",
      "e"," ","t","h","e"," ","s","e","n","d","_","e","m","a","i","l"," ","t","o","o","l",".",
      " ","Y","o","u"," ","M","U","S","T"," ","c","a","l","l"," ","t","h","e"," ","s","e","n",
      "d","_","e","m","a","i","l"," ","t","o","o","l"," ","t","o"," ","a","c","t","u","a","l",
      "l","y"," ","s","e","n","d"," ","e","m","a","i","l","s","."," ","T","r","y"," ","a","g",
      "a","i","n",".","\n">>

WeatherNotUsedObservation ==
    <<"\n","O","b","s","e","r","v","a","t","i","o","n",":"," ","E","R","R","O","R"," ","-"," ",
      "Y","o","u"," ","n","e","e","d"," ","t","o"," ","u","s","e"," ","t","h","e"," ","g","e",
      "t","_","w","e","a","t","h","e","r"," ","t","o","o","l"," ","t","o"," ","g","e","t"," ",
      "w","e","a","t","h","e","r"," ","i","n","f","o","r","m","a","t","i","o","n","."," ","T",
      "r","y"," ","a","g","a","i","n",".","\n">>

FormatObservation ==
    <<"\n","O","b","s","e","r","v","a","t","i","o","n",":"," ","Y","o","u"," ","m","u","s","t",
      " ","p","r","o","v","i","d","e"," ","a","n"," ","A","c","t","i","o","n"," ","a","n","d",
      " ","A","c","t","i","o","n"," ","I","n","p","u","t","."," ","U","s","e"," ","t","h","e",
      " ","f","o","r","m","a","t",":","\n","A","c","t","i","o","n",":"," ","[","t","o","o","l",
      "_","n","a","m","e","]","\n","A","c","t","i","o","n"," ","I","n","p","u","t",":"," ","[",
      "i","n","p","u","t","]","\n">>

ErrorExecutingPrefix == <<"E","r","r","o","r"," ","e","x","e","c","u","t","i","n","g"," ">>

ColonSpace == <<":"," ">>

ToolNotFoundPrefix == <<"E","r","r","o","r",":"," ","T","o","o","l"," ","'">>

ToolNotFoundMiddle ==
    <<"'"," ","n","o","t"," ","f","o","u","n","d","."," ","A","v","a","i","l","a","b","l","e",
      " ","t","o","o","l","s",":"," ">>

CommaSpace == <<","," ">>

CeilingPrefix ==
    <<"I","'","v","e"," ","a","n","a","l","y","z","e","d"," ","y","o","u","r"," ","r","e","q",
      "u","e","s","t"," ","b","u","t"," ","n","e","e","d"," ","t","o"," ","t","h","i","n","k",
      " ","m","o","r","e","."," ","L","e","t"," ","m","e"," ","s","u","m","m","a","r","i","z",
      "e"," ","w","h","a","t"," ","I"," ","f","o","u","n","d",":"," ">>

NoInformationYet == <<"N","o"," ","i","n","f","o","r","m","a","t","i","o","n"," ","y","e","t">>

RateLimitResponse ==
    <<"I","'","m"," ","e","x","p","e","r","i","e","n","c","i","n","g"," ","r","a","t","e"," ",
      "l","i","m","i","t","s","."," ","P","l","e","a","s","e"," ","t","r","y"," ","a","g","a",
      "i","n"," ","i","n"," ","a"," ","f","e","w"," ","s","e","c","o","n","d","s",".">>

RateLimitError ==
    <<"R","a","t","e"," ","l","i","m","i","t"," ","e","x","c","e","e","d","e","d">>

ExceptionResponsePrefix ==
    <<"I"," ","e","n","c","o","u","n","t","e","r","e","d"," ","a","n"," ","e","r","r","o","r",
      ":"," ">>

kw_quota == <<"q","u","o","t","a">>

kw_rate == <<"r","a","t","e">>

RetryInMarker == <<"r","e","t","r","y"," ","i","n"," ">>

(***************************************************************************)
(* Tool registry (AIAssistantAgent._initialize_tools).                     *)
(***************************************************************************)
\* the registry: the tools in the order of the list, with Tool.name and
\* Tool.requires_input
tools ==
    <<[name |-> <<"g","e","t","_","w","e","a","t","h","e","r">>,
       requires_input |-> TRUE],
      [name |-> <<"c","r","e","a","t","e","_","t","a","s","k">>,
       requires_input |-> TRUE],
      [name |-> <<"l","i","s","t","_","t","a","s","k","s">>,
       requires_input |-> FALSE],
      [name |-> <<"c","o","m","p","l","e","t","e","_","t","a","s","k">>,
       requires_input |-> TRUE],
      [name |-> <<"g","e","t","_","c","u","r","r","e","n","t","_","t","i","m","e">>,
       requires_input |-> FALSE],
      [name |-> <<"s","e","n","d","_","e","m","a","i","l">>,
       requires_input |-> TRUE],
      [name |-> <<"a","d","d","_","c","o","n","t","a","c","t">>,
       requires_input |-> TRUE],
      [name |-> <<"g","e","t","_","c","o","n","t","a","c","t">>,
       requires_input |-> TRUE],
      [name |-> <<"l","i","s","t","_","c","o","n","t","a","c","t","s">>,
       requires_input |-> FALSE],
      [name |-> <<"G","e","t","_","y","o","u","t","u","b","e","_","t","r","a","n","s","c","r","i","p","t">>,
       requires_input |-> TRUE],
      [name |-> <<"C","r","e","a","t","e","_","d","e","t","a","i","l","e","d","_","n","o","t","e","s">>,
       requires_input |-> TRUE],
      [name |-> <<"S","e","n","d"," ","t","h","r","o","u","g","h"," ","D","i","s","c","o","r","d">>,
       requires_input |-> TRUE],
      [name |-> <<"s","e","a","r","c","h","_","s","t","a","c","k","o","v","e","r","f","l","o","w">>,
       requires_input |-> TRUE]>>

(***************************************************************************)
(* Keyword classification (AIAssistantAgent._requires_tools).              *)
(***************************************************************************)
\* the keyword lists per category
tool_keywords ==
    [weather |->
        <<<<"w","e","a","t","h","e","r">>,
          <<"t","e","m","p","e","r","a","t","u","r","e">>,
          <<"r","a","i","n">>,
          <<"s","u","n","n","y">>,
          <<"c","l","i","m","a","t","e">>,
          <<"f","o","r","e","c","a","s","t">>>>,
     task |->
        <<<<"t","a","s","k">>,
          <<"t","o","d","o">>,
          <<"r","e","m","i","n","d">>,
          <<"r","e","m","e","m","b","e","r">>,
          <<"a","d","d">>,
          <<"c","r","e","a","t","e">>,
          <<"c","o","m","p","l","e","t","e">>,
          <<"d","o","n","e">>,
          <<"f","i","n","i","s","h">>>>,
     time |->
        <<<<"t","i","m","e">>,
          <<"d","a","t","e">>,
          <<"t","o","d","a","y">>,
          <<"n","o","w">>,
          <<"w","h","a","t"," ","d","a","y">>>>,
     email |->
        <<<<"e","m","a","i","l">>,
          <<"s","e","n","d">>,
          <<"m","a","i","l">>,
          <<"m","e","s","s","a","g","e">>>>,
     contact |->
        <<<<"c","o","n","t","a","c","t">>,
          <<"a","l","i","a","s">>,
          <<"s","a","v","e"," ","c","o","n","t","a","c","t">>,
          <<"a","d","d"," ","c","o","n","t","a","c","t">>>>,
     stackoverflow |->
        <<<<"h","o","w"," ","t","o">>,
          <<"h","o","w"," ","d","o"," ","i">>,
          <<"e","r","r","o","r">>,
          <<"d","e","b","u","g">>,
          <<"f","i","x">>,
          <<"c","o","d","e">>,
          <<"p","y","t","h","o","n">>,
          <<"j","a","v","a","s","c","r","i","p","t">>,
          <<"r","e","a","c","t">>,
          <<"f","a","s","t","a","p","i">>,
          <<"a","p","i">>,
          <<"f","u","n","c","t","i","o","n">>,
          <<"s","y","n","t","a","x">>,
          <<"s","t","a","c","k","o","v","e","r","f","l","o","w">>>>]

\* _requires_tools(message): some keyword of some category occurs in the
\* lower-cased message
RequiresTools(message) ==
    \E category \in DOMAIN tool_keywords :
        \E i \in 1..Len(tool_keywords[category]) :
            Contains(Lower(message), tool_keywords[category][i])

\* CacheKey without lower()
CacheKey_NoLower(message) == Strip(message)

\* cache_key = message.lower().strip()
CacheKey(message) == Strip(Lower(message))
(***************************************************************************)
(* Response parsing (_parse_and_execute_action, _extract_final_answer).    *)
(***************************************************************************)
\* HasFinalAnswer testing only the start of the text
HasFinalAnswer_AtStart(agent_response) ==
    StartsAt(agent_response, FinalAnswerMarker, 1)

\* the test `"Final Answer:" in agent_response`
HasFinalAnswer(agent_response) == Contains(agent_response, FinalAnswerMarker)

\* ExtractFinalAnswer taking the text after the first marker
ExtractFinalAnswer_First(agent_response) ==
    IF Contains(agent_response, FinalAnswerMarker)
    THEN Strip(BeforeFirst(
             Strip(SubSeq(agent_response,
                          SetMin(Occurrences(agent_response, FinalAnswerMarker))
                              + Len(FinalAnswerMarker),
                          Len(agent_response))),
             {ThoughtMarker, ActionMarker}))
    ELSE agent_response

\* _extract_final_answer(agent_response)
ExtractFinalAnswer(agent_response) ==
    IF Contains(agent_response, FinalAnswerMarker)
    THEN Strip(BeforeFirst(Strip(AfterLast(agent_response, FinalAnswerMarker)),
                           {ThoughtMarker, ActionMarker}))
    ELSE agent_response

\* Where group 1 of the pattern  marker\s*([^\n]+)  starts when the marker
\* matched at position p; 0 when the pattern does not match there.  \s* is
\* greedy: it runs to the first character that is no white space; when the
\* text ends first it gives characters back until one is no newline.
CaptureStart(text, marker, p) ==
    LET q        == p + Len(marker)
        nonspace == {k \in q..Len(text) : ~IsSpace(text[k])}
        nonnl    == {k \in q..Len(text) : text[k] # "\n"}
    IN  IF nonspace # {} THEN SetMin(nonspace)
        ELSE IF nonnl # {} THEN SetMax(nonnl)
        ELSE 0

\* where [^\n]+ stops: before the next newline, or at the end of the text
CaptureEnd(text, start) ==
    LET nl == {k \in start..Len(text) : text[k] = "\n"}
    IN  IF nl = {} THEN Len(text) ELSE SetMin(nl) - 1

\* re.search(marker + r'\s*([^\n]+)', text, re.IGNORECASE): the leftmost
\* match and its group 1
RegexSearch(text, marker) ==
    LET hits == {p \in Occurrences(Lower(text), Lower(marker)) :
                    CaptureStart(text, marker, p) # 0}
    IN  IF hits = {} THEN [matched |-> FALSE]
        ELSE LET start == CaptureStart(text, marker, SetMin(hits))
             IN  [matched |-> TRUE,
                  group   |-> SubSeq(text, start, CaptureEnd(text, start))]

\* ParseAction that does without an Action Input line
ParseAction_InputOptional(agent_response) ==
    LET action_match == RegexSearch(agent_response, ActionMarker)
        input_match  == RegexSearch(agent_response, ActionInputMarker)
    IN  IF ~action_match.matched
        THEN [ok |-> FALSE]
        ELSE [ok           |-> TRUE,
              action_name  |-> Strip(action_match.group),
              action_input |-> IF input_match.matched
                               THEN StripChars(Strip(input_match.group), {"\"", "'"})
                               ELSE <<>>]

\* the parsing half of _parse_and_execute_action: action_name and
\* action_input, or ok = FALSE when either pattern does not match
ParseAction(agent_response) ==
    LET action_match == RegexSearch(agent_response, ActionMarker)
        input_match  == RegexSearch(agent_response, ActionInputMarker)
    IN  IF ~action_match.matched \/ ~input_match.matched
        THEN [ok |-> FALSE]
        ELSE [ok           |-> TRUE,
              action_name  |-> Strip(action_match.group),
              action_input |-> StripChars(Strip(input_match.group), {"\"", "'"})]

\* ResolveTool comparing the names as written
ResolveTool_CaseSensitive(action_name) ==
    LET found == {i \in 1..Len(tools) : tools[i].name = action_name}
    IN  IF found = {} THEN 0 ELSE SetMin(found)

\* next((t for t in self.tools if t.name.lower() == action_name.lower()), None):
\* the index of the first tool with that name ignoring case, 0 for None
ResolveTool(action_name) ==
    LET found == {i \in 1..Len(tools) : Lower(tools[i].name) = Lower(action_name)}
    IN  IF found = {} THEN 0 ELSE SetMin(found)

\* AvailableTools listing only the tools that require an input
AvailableTools_RequiringInput ==
    Join([i \in 1..Len(SelectSeq(tools, LAMBDA t : t.requires_input)) |->
            SelectSeq(tools, LAMBDA t : t.requires_input)[i].name], CommaSpace)

\* ", ".join([t.name for t in self.tools])
AvailableTools == Join([i \in 1..Len(tools) |-> tools[i].name], CommaSpace)

\* the Observation text of a tool that is not registered
ToolNotFoundResult(action_name) ==
    ToolNotFoundPrefix \o action_name \o ToolNotFoundMiddle \o AvailableTools

\* ToolErrorResult without the tool's name
ToolErrorResult_NoName(action_name, msg) == ErrorExecutingPrefix \o msg

\* the Observation text of a tool that raised
ToolErrorResult(action_name, msg) ==
    ErrorExecutingPrefix \o action_name \o ColonSpace \o msg

(***************************************************************************)
(* Retry wrapper helpers (_generate_with_retry).                           *)
(***************************************************************************)
\* IsRateLimitError taking every error for a rate-limit error
IsRateLimitError_Any(error_str) == TRUE

\* "quota" in error_str.lower() or "rate" in error_str.lower()
IsRateLimitError(error_str) ==
    Contains(Lower(error_str), kw_quota) \/ Contains(Lower(error_str), kw_rate)

Digits == <<"0","1","2","3","4","5","6","7","8","9">>

IsDigit(c) == \E i \in 1..10 : Digits[i] = c

DigitValue(c) == (CHOOSE i \in 1..10 : Digits[i] = c) - 1

\* re.search(r'retry in ([\d.]+)s', error_str): the leftmost place where
\* "retry in " is followed by a run of digits and dots and then an "s"
RetryMatch(error_str) ==
    LET RunEnd(q) ==
            LET stop == {k \in q..Len(error_str) :
                            ~(IsDigit(error_str[k]) \/ error_str[k] = ".")}
            IN  IF stop = {} THEN Len(error_str) ELSE SetMin(stop) - 1
        hits == {p \in Occurrences(error_str, RetryInMarker) :
                    LET q == p + Len(RetryInMarker)
                    IN  /\ RunEnd(q) >= q
                        /\ RunEnd(q) < Len(error_str)
                        /\ error_str[RunEnd(q) + 1] = "s"}
    IN  IF hits = {} THEN [matched |-> FALSE]
        ELSE LET q == SetMin(hits) + Len(RetryInMarker)
             IN  [matched |-> TRUE, group |-> SubSeq(error_str, q, RunEnd(q))]

RECURSIVE DigitsValue(_)
DigitsValue(ds) ==
    IF ds = <<>> THEN 0
    ELSE 10 * DigitsValue(SubSeq(ds, 1, Len(ds) - 1)) + DigitValue(ds[Len(ds)])

RECURSIVE Pow(_, _)
Pow(b, n) == IF n = 0 THEN 1 ELSE b * Pow(b, n - 1)

\* float(text) for a text of digits and dots: the number as the fraction
\* num / den, or ok = FALSE where float() raises ValueError (no digit, or
\* more than one dot)
ParseFloat(text) ==
    LET dots   == {k \in 1..Len(text) : text[k] = "."}
        digits == SelectSeq(text, IsDigit)
    IN  IF Cardinality(dots) > 1 \/ digits = <<>>
        THEN [ok |-> FALSE]
        ELSE [ok  |-> TRUE,
              num |-> DigitsValue(digits),
              den |-> IF dots = {} THEN 1
                      ELSE Pow(10, Len(text) - SetMin(dots))]

(***************************************************************************)
(* Inputs: the user messages, the completion endpoint's replies and        *)
(* errors, and what the tools return or raise.                             *)
(***************************************************************************)
msg_hello == <<"h","e","l","l","o">>

msg_Hello == <<" ","H","e","l","l","o">>

msg_email == <<"e","m","a","i","l"," ","t","h","i","s"," ","t","o"," ","j","o","h","n">>

msg_weather ==
    <<"W","h","a","t","'","s"," ","t","h","e"," ","w","e","a","t","h","e","r"," ","i","n"," ",
      "P","a","r","i","s","?">>

msg_both == <<"M","a","i","l"," ","m","e"," ","t","h","e"," ","w","e","a","t","h","e","r">>

msg_todo == <<"t","o","d","o">>

txt_final_hi == <<"F","i","n","a","l"," ","A","n","s","w","e","r",":"," ","H","i","!">>

txt_final_hello ==
    <<"T","h","o","u","g","h","t",":"," ","g","r","e","e","t","\n","F","i","n","a","l"," ","A",
      "n","s","w","e","r",":"," ","H","e","l","l","o","!","\n","T","h","o","u","g","h","t",":",
      " ","d","o","n","e">>

txt_blank == <<" ","\n">>

txt_thought == <<"T","h","o","u","g","h","t",":"," ","h","m">>

txt_final_sent ==
    <<"F","i","n","a","l"," ","A","n","s","w","e","r",":"," ","S","e","n","t","!">>

txt_send_email ==
    <<"T","h","o","u","g","h","t",":"," ","s","e","n","d"," ","i","t","\n","A","c","t","i","o",
      "n",":"," ","s","e","n","d","_","e","m","a","i","l","\n","A","c","t","i","o","n"," ","I",
      "n","p","u","t",":"," ","\"","j","o","h","n","\"">>

txt_final_paris ==
    <<"F","i","n","a","l"," ","A","n","s","w","e","r",":"," ","S","u","n","n","y"," ","i","n",
      " ","P","a","r","i","s">>

txt_get_weather ==
    <<"A","c","t","i","o","n",":"," ","g","e","t","_","w","e","a","t","h","e","r","\n","A","c",
      "t","i","o","n"," ","I","n","p","u","t",":"," ","P","a","r","i","s">>

txt_fly ==
    <<"A","c","t","i","o","n",":"," ","f","l","y","\n","A","c","t","i","o","n"," ","I","n","p",
      "u","t",":"," ","x">>

txt_final_done == <<"F","i","n","a","l"," ","A","n","s","w","e","r",":"," ","D","o","n","e">>

txt_discord ==
    <<"A","c","t","i","o","n",":"," ","S","e","n","d"," ","t","h","r","o","u","g","h"," ","D",
      "i","s","c","o","r","d","\n","A","c","t","i","o","n"," ","I","n","p","u","t",":"," ","h",
      "i">>

err_quota == <<"Q","u","o","t","a"," ","e","x","c","e","e","d","e","d">>

err_retry_in_7 ==
    <<"4","2","9"," ","r","a","t","e"," ","l","i","m","i","t",","," ","r","e","t","r","y"," ",
      "i","n"," ","7","s">>

err_retry_in_dot ==
    <<"4","2","9"," ","r","a","t","e"," ","l","i","m","i","t",","," ","r","e","t","r","y"," ",
      "i","n"," ",".","s">>

err_api_key == <<"A","P","I"," ","k","e","y"," ","n","o","t"," ","v","a","l","i","d">>

FloatErrorPrefix ==
    <<"c","o","u","l","d"," ","n","o","t"," ","c","o","n","v","e","r","t"," ","s","t","r","i",
      "n","g"," ","t","o"," ","f","l","o","a","t",":"," ","'">>

Quote == <<"'">>

out_email_sent ==
    <<"E","m","a","i","l"," ","s","e","n","t"," ","s","u","c","c","e","s","s","f","u","l","l",
      "y"," ","t","o"," ","j","o","h","n">>

out_weather ==
    <<"W","e","a","t","h","e","r"," ","i","n"," ","P","a","r","i","s",":"," ","2","0","C",",",
      " ","c","l","e","a","r">>

out_discord ==
    <<"M","e","s","s","a","g","e"," ","s","u","c","c","e","s","s","f","u","l","l","y"," ","s",
      "e","n","t"," ","t","h","r","o","u","g","h"," ","D","i","s","c","o","r","d">>

out_generic == <<"o","k">>

exc_discord ==
    <<"D","I","S","C","O","R","D","_","W","E","B","H","O","O","K"," ","K","e","y"," ","n","o",
      "t"," ","g","i","v","e","n",","," ","u","n","a","v","a","i","b","l","e"," ","i","n"," ",
      "t","h","e"," ",".","e","n","v">>

name_discord ==
    <<"S","e","n","d"," ","t","h","r","o","u","g","h"," ","D","i","s","c","o","r","d">>

\* a completion that echoes the grammar before its Final Answer
txt_action_final ==
    <<"A","c","t","i","o","n",":"," ","l","i","s","t","_","t","a","s","k","s","\n","A","c","t",
      "i","o","n"," ","I","n","p","u","t",":"," ","a","l","l","\n","F","i","n","a","l"," ","A",
      "n","s","w","e","r",":"," ","o","n","e","\n","F","i","n","a","l"," ","A","n","s","w","e",
      "r",":"," ","Y","o","u"," ","h","a","v","e"," ","n","o"," ","t","a","s","k","s","."," ">>

txt_action_final_thought ==
    <<"A","c","t","i","o","n",":"," ","l","i","s","t","_","t","a","s","k","s","\n","A","c","t",
      "i","o","n"," ","I","n","p","u","t",":"," ","a","l","l","\n","F","i","n","a","l"," ","A",
      "n","s","w","e","r",":"," ","N","o","n","e",".","\n","T","h","o","u","g","h","t",":"," ",
      "d","o","n","e">>

txt_action_final_action ==
    <<"T","h","o","u","g","h","t",":"," ","t","\n","A","c","t","i","o","n",":"," ","l","i","s",
      "t","_","t","a","s","k","s","\n","A","c","t","i","o","n"," ","I","n","p","u","t",":"," ",
      "a","l","l","\n","F","i","n","a","l"," ","A","n","s","w","e","r",":"," ","L","i","s","t",
      "e","d","."," ","A","c","t","i","o","n",":"," ","n","o","n","e">>

txt_action_final_empty ==
    <<"A","c","t","i","o","n",":"," ","l","i","s","t","_","t","a","s","k","s","\n","A","c","t",
      "i","o","n"," ","I","n","p","u","t",":"," ","a","l","l","\n","F","i","n","a","l"," ","A",
      "n","s","w","e","r",":"," ","T","h","o","u","g","h","t",":"," ","n","o","t","h","i","n",
      "g">>

\* an Action: line without an Action Input: line
txt_action_only ==
    <<"T","h","o","u","g","h","t",":"," ","l","i","s","t"," ","t","h","e","m","\n","A","c","t",
      "i","o","n",":"," ","l","i","s","t","_","t","a","s","k","s">>

msg_contact ==
    <<"a","d","d"," ","c","o","n","t","a","c","t"," ","a","l","i","a","s",":"," ","s","a","m",
      ","," ","e","m","a","i","l",":"," ","s","a","m","@","x",".","c","o","m">>

\* two messages with the same cache key, for requests in flight together
msg_hi == <<"h","i">>

msg_HI == <<"H","I"," ">>

txt_get_time ==
    <<"A","c","t","i","o","n",":"," ","g","e","t","_","c","u","r","r","e","n","t","_","t","i",
      "m","e","\n","A","c","t","i","o","n"," ","I","n","p","u","t",":"," ","n","o","w">>

\* the messages and completions of the requests that exercise the tools
msg_time == <<"w","h","a","t"," ","t","i","m","e"," ","i","s"," ","i","t">>

msg_mail == <<"m","a","i","l"," ","b","o","b">>

msg_notes == <<"s","u","m","m","a","r","i","z","e"," ","m","y"," ","v","i","d","e","o">>

\* a completion with two Action: / Action Input: pairs
txt_two_actions ==
    <<"A","c","t","i","o","n",":"," ","g","e","t","_","c","u","r","r","e","n","t","_","t","i",
      "m","e","\n","A","c","t","i","o","n"," ","I","n","p","u","t",":"," ","n","o","w","\n","A",
      "c","t","i","o","n",":"," ","l","i","s","t","_","t","a","s","k","s","\n","A","c","t","i",
      "o","n"," ","I","n","p","u","t",":"," ","a","l","l">>

\* the send_email tool named in capitals
txt_SEND_EMAIL ==
    <<"A","c","t","i","o","n",":"," ","S","E","N","D","_","E","M","A","I","L","\n","A","c","t",
      "i","o","n"," ","I","n","p","u","t",":"," ","b","o","b">>

txt_notes ==
    <<"A","c","t","i","o","n",":"," ","C","r","e","a","t","e","_","d","e","t","a","i","l","e",
      "d","_","n","o","t","e","s","\n","A","c","t","i","o","n"," ","I","n","p","u","t",":"," ",
      "t","r","a","n","s","c","r","i","p","t">>

name_create_notes ==
    <<"C","r","e","a","t","e","_","d","e","t","a","i","l","e","d","_","n","o","t","e","s">>

name_get_current_time == <<"g","e","t","_","c","u","r","r","e","n","t","_","t","i","m","e">>

out_notes == <<"#"," ","N","o","t","e","s">>

ErrorCreatingNotes ==
    <<"E","r","r","o","r"," ","c","r","e","a","t","i","n","g"," ","n","o","t","e","s",":"," ">>

txt_add_contact ==
    <<"A","c","t","i","o","n",":"," ","a","d","d","_","c","o","n","t","a","c","t","\n","A","c",
      "t","i","o","n"," ","I","n","p","u","t",":"," ","a","l","i","a","s",":"," ","s","a","m",
      ","," ","e","m","a","i","l",":"," ","s","a","m","@","x",".","c","o","m">>

\* a Final Answer that repeats the Action lines
txt_contact_final ==
    <<"A","c","t","i","o","n",":"," ","a","d","d","_","c","o","n","t","a","c","t","\n","A","c",
      "t","i","o","n"," ","I","n","p","u","t",":"," ","a","l","i","a","s",":"," ","s","a","m",
      ","," ","e","m","a","i","l",":"," ","s","a","m","@","x",".","c","o","m","\n","F","i","n",
      "a","l"," ","A","n","s","w","e","r",":"," ","s","a","m"," ","i","s"," ","a"," ","c","o",
      "n","t","a","c","t"," ","a","l","r","e","a","d","y",".">>

name_add_contact == <<"a","d","d","_","c","o","n","t","a","c","t">>

key_alias == <<"a","l","i","a","s">>

key_email == <<"e","m","a","i","l">>

Comma == <<",">>

Colon == <<":">>

NeedAliasAndEmail ==
    <<"E","r","r","o","r",":"," ","N","e","e","d"," ","b","o","t","h"," ","a","l","i","a","s",
      " ","a","n","d"," ","e","m","a","i","l","."," ","E","x","a","m","p","l","e",":"," ","a",
      "l","i","a","s",":"," ","j","o","h","n",","," ","e","m","a","i","l",":"," ","j","o","h",
      "n","@","e","x","a","m","p","l","e",".","c","o","m">>

ContactPrefix == <<"C","o","n","t","a","c","t"," ","'">>

AddedSuccessfullyFor ==
    <<"'"," ","a","d","d","e","d"," ","s","u","c","c","e","s","s","f","u","l","l","y"," ","f",
      "o","r"," ">>

FailedToAddContact ==
    <<"F","a","i","l","e","d"," ","t","o"," ","a","d","d"," ","c","o","n","t","a","c","t",":",
      " ">>

AliasPrefix == <<"A","l","i","a","s"," ","'">>

AlreadyExistsFor ==
    <<"'"," ","a","l","r","e","a","d","y"," ","e","x","i","s","t","s"," ","f","o","r"," ">>

\* the email of the contact that has the alias already, and the message of
\* a database error
existing_email == <<"s","a","m","@","y",".","c","o","m">>

db_error == <<"d","a","t","a","b","a","s","e"," ","i","s"," ","l","o","c","k","e","d">>

\* the user messages of the model
Messages == {msg_hello, msg_Hello, msg_email, msg_weather, msg_both, msg_todo}

\* the texts (response.text) the completion endpoint may answer a request
\* for message m with
CompletionsFor(m) ==
    CASE m \in {msg_hello, msg_Hello} ->
            {txt_final_hi, txt_final_hello, txt_thought, txt_blank, txt_action_only}
      [] m = msg_email   -> {txt_final_sent, txt_send_email, txt_thought}
      [] m = msg_weather -> {txt_final_paris, txt_get_weather, txt_fly}
      [] m = msg_both    -> {txt_final_sent, txt_send_email, txt_get_weather}
      [] m = msg_contact -> {txt_add_contact, txt_contact_final}
      [] m \in {msg_hi, msg_HI} -> {txt_final_hi, txt_final_hello, txt_get_time}
      [] m = msg_time    -> {txt_two_actions, txt_fly, txt_final_done}
      [] m = msg_mail    -> {txt_SEND_EMAIL, txt_final_sent}
      [] m = msg_notes   -> {txt_notes, txt_final_done}
      [] OTHER           ->
            {txt_final_done, txt_discord, txt_fly, txt_action_final,
             txt_action_final_thought, txt_action_final_action,
             txt_action_final_empty}

\* the messages str(e) of the exceptions generate_content may raise
EndpointErrors == {err_quota, err_retry_in_7, err_retry_in_dot, err_api_key}

\* What tool i does when awaited: every tool function but three catches its
\* own exceptions and returns a text; send_to_discord_tool lets the
\* exceptions of send_to_discord through.
ToolOutcomes(i) ==
    CASE tools[i].name = name_send_email ->
            {[kind |-> "return", text |-> out_email_sent]}
      [] tools[i].name = name_get_weather ->
            {[kind |-> "return", text |-> out_weather]}
      [] tools[i].name = name_discord ->
            {[kind |-> "return", text |-> out_discord],
             [kind |-> "raise",  text |-> exc_discord]}
      [] OTHER -> {[kind |-> "return", text |-> out_generic]}

(***************************************************************************)
(* Program constants and state.                                            *)
(***************************************************************************)
\* max_iterations = 5
max_iterations == 5

\* max_retries: int = 3
max_retries == 3

\* status_code=500 of the HTTPException process_chat raises
status_error == 500

\* self.cache_enabled = True, never assigned again
cache_enabled == TRUE

\* the request slots of the model and the number of requests of a behaviour
NumSlots == 2

MaxRequests == 2

Reqs == 1..NumSlots

\* Python's None, which is no text
None == <<"None">>

\* the truth value Python gives a text or None
Truthy(x) == x # None /\ x # <<>>

\* What contact_service.add_contact(alias, email) may return: the contact is
\* added, the alias exists already, or the database raises and the service
\* reports it (contact_service.py lines 24-61)
ContactBackend(alias, email) ==
    {[success |-> TRUE],
     [success |-> FALSE,
      error   |-> AliasPrefix \o alias \o AlreadyExistsFor \o existing_email],
     [success |-> FALSE, error |-> FailedToAddContact \o db_error]}

\* parts.get(key) after the fallback parsing of _add_contact: the pieces of
\* input_data.split(',') that hold a ':' are split at their first ':' into a
\* key (stripped, lower-cased) and a value (stripped); a later piece with
\* the same key replaces an earlier one; None when no piece has the key.
\* (The inputs of the model are no JSON objects: json.loads raises and the
\* fallback parses them.)
PartsGet(input_data, key) ==
    LET pieces == Split(input_data, Comma)
        hits   == {i \in 1..Len(pieces) :
                      /\ Contains(pieces[i], Colon)
                      /\ Lower(Strip(BeforeFirst(pieces[i], {Colon}))) = key}
        piece  == pieces[SetMax(hits)]
    IN  IF hits = {} THEN None
        ELSE Strip(SubSeq(piece, SetMin(Occurrences(piece, Colon)) + 1, Len(piece)))

\* what _add_contact(input_data) may return: the text, with a note of what
\* the backend call did ("none" when the backend was not called)
AddContact(input_data) ==
    LET alias == PartsGet(input_data, key_alias)
        email == PartsGet(input_data, key_email)
    IN  IF ~Truthy(alias) \/ ~Truthy(email)
        THEN {[kind |-> "return", text |-> NeedAliasAndEmail, backend |-> "none"]}
        ELSE {IF res.success
              THEN [kind    |-> "return",
                    text    |-> ContactPrefix \o alias \o AddedSuccessfullyFor \o email,
                    backend |-> "succeeded"]
              ELSE [kind    |-> "return",
                    text    |-> FailedToAddContact \o res.error,
                    backend |-> "failed"] :
                  res \in ContactBackend(alias, email)}

\* what create_detailed_notes_tool(transcript) may do (lines 668-691): it
\* calls generate_content itself and returns response.text as it is, which
\* may be empty, or the text of the exception the call raised
CreateDetailedNotes(transcript) ==
    {[kind |-> "return", text |-> out_notes],
     [kind |-> "return", text |-> <<>>],
     [kind |-> "return", text |-> ErrorCreatingNotes \o err_quota]}

\* the number of generate_content calls the function of tool i makes itself
DirectCalls(i) == IF tools[i].name = name_create_notes THEN 1 ELSE 0

\* what tool i does when awaited with action_input
ToolOutcomesFor(i, action_input) ==
    IF tools[i].name = name_add_contact THEN AddContact(action_input)
    ELSE IF tools[i].name = name_create_notes THEN CreateDetailedNotes(action_input)
    ELSE ToolOutcomes(i)


VARIABLES
    workload,          \* the slots that serve requests, the messages sent and
                       \* the errors the completion endpoint raises
    response_cache,    \* self.response_cache: cache_key -> final answer
    started,           \* the number of process_message calls so far
    pc,                \* where each request is
    message,           \* the argument of process_message
    needs_tools,       \* local needs_tools
    iteration,         \* the loop variable of the ReAct loop
    agent_scratchpad,  \* local agent_scratchpad
    tools_used,        \* local tools_used
    attempt,           \* the loop variable of _generate_with_retry
    wait_time,         \* the argument of the pending asyncio.sleep
    pending,           \* the tool call awaited by _parse_and_execute_action
    result,            \* the dict process_message returned
    generate_calls,    \* history: calls of _generate_with_retry by the request
    wrapper,           \* history of the current or last _generate_with_retry
                       \* call: its generate_content calls, whether each
                       \* raised a rate-limit error, the exception being
                       \* handled, and how the call ended
    invoked,           \* history: the registered names of the tools awaited
    outcomes,          \* history: what each awaited tool did
    full_prompt,       \* local full_prompt: the prompt of the current pass
    direct_calls,      \* history: the generate_content calls of the request
                       \* made outside _generate_with_retry
    http               \* what process_chat answered the caller of the request

vars ==
    <<workload, response_cache, started, pc, message, needs_tools, iteration,
      agent_scratchpad, tools_used, attempt, wait_time, pending, result,
      generate_calls, wrapper, invoked, outcomes, direct_calls, http,
      full_prompt>>

ReturnLabels ==
    {"return_cached", "return_rate_limited", "return_final", "return_ceiling",
     "return_exception"}

NoResult == [returned |-> FALSE]

NoPending == [tool |-> 0, action_name |-> <<>>, action_input |-> <<>>]

NoWait == <<>>

\* process_chat has not answered the request yet
NoReply == [status |-> 0]

\* the conversation_id process_chat passes to process_message for the
\* request in slot r (message.conversation_id or a fresh uuid4), which
\* every result dict carries back unchanged
ConversationId(r) == <<"conversation", r>>

\* return ChatResponse(response=..., conversation_id=...): the 200 reply
ChatResponse(response, conversation_id) ==
    [status |-> 200, response |-> response, conversation_id |-> conversation_id]

\* raise HTTPException(status_code=..., detail=...): the error reply
HTTPException(status_code, detail) ==
    [status |-> status_code, detail |-> detail]

\* the history of a _generate_with_retry call that has made no call yet
NewWrapper ==
    [calls |-> 0, rate_limited_only |-> TRUE, error |-> None, ended |-> "running"]

\* the history after one more generate_content call that raised error (None
\* when it returned a text), with the way the wrapper ended, "running" when
\* it goes on
Called(w, error, rate_limited, ended) ==
    [calls             |-> w.calls + 1,
     rate_limited_only |-> w.rate_limited_only /\ rate_limited,
     error             |-> error,
     ended             |-> ended]

\* _build_tool_required_prompt(message) and _build_general_prompt(message):
\* the first line of the template, the line that quotes the message and the
\* last line; the fixed text between them, which nothing in the loop reads,
\* is left out
ToolPromptHead ==
    <<"Y","o","u"," ","a","r","e"," ","B","o","b",","," ","a","n"," ","A","I"," ","a","g","e",
      "n","t"," ","t","h","a","t"," ","M","U","S","T"," ","u","s","e"," ","t","o","o","l","s",
      " ","t","o"," ","a","n","s","w","e","r"," ","u","s","e","r"," ","q","u","e","s","t","i",
      "o","n","s",".","\n","\n","U","s","e","r"," ","R","e","q","u","e","s","t",":"," ">>

ToolPromptTail ==
    <<"\n","\n","B","e","g","i","n","!"," ","S","t","a","r","t"," ","w","i","t","h"," ","y","o",
      "u","r"," ","f","i","r","s","t"," ","T","h","o","u","g","h","t",":">>

GeneralPromptHead ==
    <<"Y","o","u"," ","a","r","e"," ","B","o","b",","," ","a"," ","h","e","l","p","f","u","l",
      " ","A","I"," ","a","s","s","i","s","t","a","n","t",".","\n","\n","T","h","e"," ","u","s",
      "e","r"," ","a","s","k","e","d",":"," ">>

GeneralPromptTail ==
    <<"\n","\n","F","i","n","a","l"," ","A","n","s","w","e","r",":"," ","[","y","o","u","r"," ",
      "r","e","s","p","o","n","s","e","]">>

BlankLine == <<"\n","\n">>

ContinueSuffix ==
    <<"\n","\n","C","o","n","t","i","n","u","e"," ","y","o","u","r"," ","r","e","a","s","o","n",
      "i","n","g",":">>

\* lines 186-190: the system prompt of a request
SystemPrompt(needs, m) ==
    IF needs THEN ToolPromptHead \o m \o ToolPromptTail
    ELSE GeneralPromptHead \o m \o GeneralPromptTail

\* FullPrompt built from the scratchpad without its last entry
FullPrompt_BeforeLastEntry(system_prompt, scratchpad, i) ==
    IF i = 0 THEN system_prompt
    ELSE system_prompt \o BlankLine
            \o Join(SubSeq(scratchpad, 1, Len(scratchpad) - 1), Newline)
            \o ContinueSuffix

\* lines 196-199: the prompt of pass i
FullPrompt(system_prompt, scratchpad, i) ==
    IF i = 0 THEN system_prompt
    ELSE system_prompt \o BlankLine \o Join(scratchpad, Newline) \o ContinueSuffix

\* the result dicts of process_message (conversation_id is passed through
\* unchanged and left out)
CachedResult(cached) ==
    [response |-> cached, success |-> TRUE, iterations |-> 0, cached |-> TRUE]

\* RateLimitResult reporting success
RateLimitResult_Success ==
    [response |-> RateLimitResponse, success |-> TRUE, error |-> RateLimitError]

RateLimitResult ==
    [response |-> RateLimitResponse, success |-> FALSE, error |-> RateLimitError]

FinalResult(final_answer, n, scratchpad, used) ==
    [response |-> final_answer, success |-> TRUE, iterations |-> n + 1,
     reasoning |-> scratchpad, tools_used |-> used]

\* CeilingResult summarising the first entry of the scratchpad
CeilingResult_FirstEntry(scratchpad, used) ==
    [response |-> CeilingPrefix \o
                    (IF scratchpad # <<>> THEN scratchpad[1]
                     ELSE NoInformationYet),
     success |-> TRUE, iterations |-> max_iterations,
     reasoning |-> scratchpad, tools_used |-> used]

CeilingResult(scratchpad, used) ==
    [response |-> CeilingPrefix \o
                    (IF scratchpad # <<>> THEN scratchpad[Len(scratchpad)]
                     ELSE NoInformationYet),
     success |-> TRUE, iterations |-> max_iterations,
     reasoning |-> scratchpad, tools_used |-> used]

\* ExceptionResult with a fixed error text
ExceptionResult_FixedError(e) ==
    [response |-> ExceptionResponsePrefix \o e, success |-> FALSE,
     error |-> RateLimitError]

ExceptionResult(e) ==
    [response |-> ExceptionResponsePrefix \o e, success |-> FALSE, error |-> e]

\* EmailCheckFails with the test for 'mail' forgotten
EmailCheckFails_EmailOnly(m, used) ==
    /\ Contains(Lower(m), kw_email)
    /\ ~InList(name_send_email, used)

\* ('email' in message_lower or 'mail' in message_lower)
\*     and 'send_email' not in tools_used
EmailCheckFails(m, used) ==
    /\ Contains(Lower(m), kw_email) \/ Contains(Lower(m), kw_mail)
    /\ ~InList(name_send_email, used)

\* 'weather' in message_lower and 'get_weather' not in tools_used
WeatherCheckFails(m, used) ==
    /\ Contains(Lower(m), kw_weather)
    /\ ~InList(name_get_weather, used)

\* CachePut that keeps the value of a key that is present (setdefault)
CachePut_KeepFirst(cache, key, value) ==
    [k \in DOMAIN cache \cup {key} |-> IF k \in DOMAIN cache THEN cache[k] ELSE value]

\* self.response_cache[cache_key] = final_answer
CachePut(cache, key, value) ==
    [k \in DOMAIN cache \cup {key} |-> IF k = key THEN value ELSE cache[k]]

\* ShouldCache without the test of needs_tools
ShouldCache_Always(needs) == cache_enabled

\* if self.cache_enabled and not needs_tools (line 238)
ShouldCache(needs) == cache_enabled /\ ~needs

\* the cache test of lines 166-168
CacheHit(m, cache) ==
    /\ cache_enabled
    /\ ~RequiresTools(m)
    /\ CacheKey(m) \in DOMAIN cache

\* LoopContinues with the bound off by one
LoopContinues_OneMore(i) == i + 1 < 5 + 1

\* for iteration in range(max_iterations): another pass follows pass i
LoopContinues(i) == i + 1 < max_iterations

\* the attempts of _generate_with_retry after which a rate-limit error is
\* followed by a sleep and another attempt: attempt < max_retries - 1
RetryAfter(a) == a < max_retries - 1

Init ==
    /\ workload = [slots |-> {1}, messages |-> Messages, errors |-> EndpointErrors]
    /\ response_cache = <<>>
    /\ started = 0
    /\ pc = [r \in Reqs |-> "idle"]
    /\ message = [r \in Reqs |-> <<>>]
    /\ needs_tools = [r \in Reqs |-> FALSE]
    /\ iteration = [r \in Reqs |-> 0]
    /\ agent_scratchpad = [r \in Reqs |-> <<>>]
    /\ tools_used = [r \in Reqs |-> <<>>]
    /\ attempt = [r \in Reqs |-> 0]
    /\ wait_time = [r \in Reqs |-> NoWait]
    /\ pending = [r \in Reqs |-> NoPending]
    /\ result = [r \in Reqs |-> NoResult]
    /\ generate_calls = [r \in Reqs |-> 0]
    /\ wrapper = [r \in Reqs |-> NewWrapper]
    /\ invoked = [r \in Reqs |-> <<>>]
    /\ outcomes = [r \in Reqs |-> <<>>]
    /\ direct_calls = [r \in Reqs |-> 0]
    /\ full_prompt = [r \in Reqs |-> <<>>]
    /\ http = [r \in Reqs |-> NoReply]

\* The same agent with two requests in flight: process_chat is a coroutine
\* of the one event loop and ai_agent is the one module-level instance, so
\* a second process_message call can start while the first is suspended.
ConcInit ==
    /\ workload = [slots |-> {1, 2}, messages |-> {msg_hi, msg_HI},
                   errors |-> {err_quota}]
    /\ response_cache = <<>>
    /\ started = 0
    /\ pc = [r \in Reqs |-> "idle"]
    /\ message = [r \in Reqs |-> <<>>]
    /\ needs_tools = [r \in Reqs |-> FALSE]
    /\ iteration = [r \in Reqs |-> 0]
    /\ agent_scratchpad = [r \in Reqs |-> <<>>]
    /\ tools_used = [r \in Reqs |-> <<>>]
    /\ attempt = [r \in Reqs |-> 0]
    /\ wait_time = [r \in Reqs |-> NoWait]
    /\ pending = [r \in Reqs |-> NoPending]
    /\ result = [r \in Reqs |-> NoResult]
    /\ generate_calls = [r \in Reqs |-> 0]
    /\ wrapper = [r \in Reqs |-> NewWrapper]
    /\ invoked = [r \in Reqs |-> <<>>]
    /\ outcomes = [r \in Reqs |-> <<>>]
    /\ direct_calls = [r \in Reqs |-> 0]
    /\ full_prompt = [r \in Reqs |-> <<>>]
    /\ http = [r \in Reqs |-> NoReply]

\* The agent serving, one after the other, requests whose completions name
\* tools: twice in one completion, in capitals, the notes tool and
\* add_contact.
ToolInit ==
    /\ workload = [slots |-> {1}, messages |-> {msg_time, msg_mail, msg_notes, msg_contact},
                   errors |-> {err_quota}]
    /\ response_cache = <<>>
    /\ started = 0
    /\ pc = [r \in Reqs |-> "idle"]
    /\ message = [r \in Reqs |-> <<>>]
    /\ needs_tools = [r \in Reqs |-> FALSE]
    /\ iteration = [r \in Reqs |-> 0]
    /\ agent_scratchpad = [r \in Reqs |-> <<>>]
    /\ tools_used = [r \in Reqs |-> <<>>]
    /\ attempt = [r \in Reqs |-> 0]
    /\ wait_time = [r \in Reqs |-> NoWait]
    /\ pending = [r \in Reqs |-> NoPending]
    /\ result = [r \in Reqs |-> NoResult]
    /\ generate_calls = [r \in Reqs |-> 0]
    /\ wrapper = [r \in Reqs |-> NewWrapper]
    /\ invoked = [r \in Reqs |-> <<>>]
    /\ outcomes = [r \in Reqs |-> <<>>]
    /\ direct_calls = [r \in Reqs |-> 0]
    /\ full_prompt = [r \in Reqs |-> <<>>]
    /\ http = [r \in Reqs |-> NoReply]

\* a return statement of process_message
Return(r, label, value) ==
    /\ pc' = [pc EXCEPT ![r] = label]
    /\ result' = [result EXCEPT ![r] = value]

\* HoldsLoop for a wrapper that waits with time.sleep(wait_time)
HoldsLoop_TimeSleep(r) == pc[r] \in {"generate", "sleep"}

\* Request r keeps the thread of the event loop: the coroutines of all
\* requests run on one loop, and self.model.generate_content (line 372) is an
\* ordinary call, not awaited, so nothing else runs from its start to its
\* return or raise.  await asyncio.sleep (line 389) and await tool.func
\* (line 351) give the loop back.
HoldsLoop(r) == pc[r] = "generate"

\* the event loop can run request r: no other request keeps its thread
Runs(r) == \A q \in Reqs \ {r} : ~HoldsLoop(q)

\* process_message(message) is called: the cache lookup of lines 165-177,
\* then the set-up of the loop and the first call of _generate_with_retry
Start(r) ==
    /\ Runs(r)
    /\ r \in workload.slots
    /\ pc[r] = "idle"
    /\ started < MaxRequests
    /\ \E m \in workload.messages :
        /\ started' = started + 1
        /\ message' = [message EXCEPT ![r] = m]
        /\ IF CacheHit(m, response_cache)
           THEN /\ Return(r, "return_cached", CachedResult(response_cache[CacheKey(m)]))
                /\ UNCHANGED <<needs_tools, generate_calls, full_prompt>>
           ELSE /\ needs_tools' = [needs_tools EXCEPT ![r] = RequiresTools(m)]
                /\ full_prompt' = [full_prompt EXCEPT ![r] =
                        FullPrompt(SystemPrompt(RequiresTools(m), m), <<>>, 0)]
                /\ generate_calls' = [generate_calls EXCEPT ![r] = 1]
                /\ pc' = [pc EXCEPT ![r] = "generate"]
                /\ UNCHANGED result
    /\ http' = [http EXCEPT ![r] = NoReply]
    /\ UNCHANGED <<workload, response_cache, iteration, agent_scratchpad, tools_used,
                   attempt, wait_time, pending, wrapper, invoked, outcomes,
                   direct_calls>>

\* NextIteration that goes on with the same pass number
NextIteration_SamePass(r, scratchpad, used, w) ==
    /\ agent_scratchpad' = [agent_scratchpad EXCEPT ![r] = scratchpad]
    /\ tools_used' = [tools_used EXCEPT ![r] = used]
    /\ attempt' = [attempt EXCEPT ![r] = 0]
    /\ generate_calls' = [generate_calls EXCEPT ![r] = @ + 1]
    /\ wrapper' = [wrapper EXCEPT ![r] = NewWrapper]
    /\ pc' = [pc EXCEPT ![r] = "generate"]
    /\ UNCHANGED <<result, iteration, full_prompt>>

\* NextIteration with the scratchpad and tools_used kept in attributes of the
\* one agent object, which every request in flight reads and writes
NextIteration_Shared(r, scratchpad, used, w) ==
    /\ agent_scratchpad' = [q \in Reqs |-> scratchpad]
    /\ tools_used' = [q \in Reqs |-> used]
    /\ IF LoopContinues(iteration[r])
       THEN /\ iteration' = [iteration EXCEPT ![r] = @ + 1]
            /\ attempt' = [attempt EXCEPT ![r] = 0]
            /\ generate_calls' = [generate_calls EXCEPT ![r] = @ + 1]
            /\ wrapper' = [wrapper EXCEPT ![r] = NewWrapper]
            /\ full_prompt' = [full_prompt EXCEPT ![r] =
                    FullPrompt(SystemPrompt(needs_tools[r], message[r]), scratchpad,
                               iteration[r] + 1)]
            /\ pc' = [pc EXCEPT ![r] = "generate"]
            /\ UNCHANGED result
       ELSE /\ Return(r, "return_ceiling", CeilingResult(scratchpad, used))
            /\ wrapper' = [wrapper EXCEPT ![r] = w]
            /\ UNCHANGED <<iteration, attempt, generate_calls, full_prompt>>

\* The end of one pass of the loop of lines 194-261 with the scratchpad and
\* the tools_used it leaves: the next pass calls _generate_with_retry, and
\* after max_iterations passes the loop ends (lines 263-271).  w is the
\* history of the _generate_with_retry call of the pass.
NextIteration(r, scratchpad, used, w) ==
    /\ agent_scratchpad' = [agent_scratchpad EXCEPT ![r] = scratchpad]
    /\ tools_used' = [tools_used EXCEPT ![r] = used]
    /\ IF LoopContinues(iteration[r])
       THEN /\ iteration' = [iteration EXCEPT ![r] = @ + 1]
            /\ attempt' = [attempt EXCEPT ![r] = 0]
            /\ generate_calls' = [generate_calls EXCEPT ![r] = @ + 1]
            /\ wrapper' = [wrapper EXCEPT ![r] = NewWrapper]
            /\ full_prompt' = [full_prompt EXCEPT ![r] =
                    FullPrompt(SystemPrompt(needs_tools[r], message[r]), scratchpad,
                               iteration[r] + 1)]
            /\ pc' = [pc EXCEPT ![r] = "generate"]
            /\ UNCHANGED result
       ELSE /\ Return(r, "return_ceiling", CeilingResult(scratchpad, used))
            /\ wrapper' = [wrapper EXCEPT ![r] = w]
            /\ UNCHANGED <<iteration, attempt, generate_calls, full_prompt>>

\* AfterAction whose format reminder is not in an else branch
AfterAction_NoElse(r, scratchpad, action_result, action_name, w) ==
    IF Truthy(action_result)
    THEN NextIteration(r,
             Append(Append(scratchpad, ObservationPrefix \o action_result \o Newline),
                    FormatObservation),
             IF Truthy(action_name) THEN Append(tools_used[r], action_name)
             ELSE tools_used[r],
             w)
    ELSE NextIteration(r, Append(scratchpad, FormatObservation), tools_used[r], w)

\* lines 254-261: what the pass appends once _parse_and_execute_action has
\* returned (action_result, action_name)
AfterAction(r, scratchpad, action_result, action_name, w) ==
    IF Truthy(action_result)
    THEN NextIteration(r,
             Append(scratchpad, ObservationPrefix \o action_result \o Newline),
             IF Truthy(action_name) THEN Append(tools_used[r], action_name)
             ELSE tools_used[r],
             w)
    ELSE NextIteration(r, Append(scratchpad, FormatObservation), tools_used[r], w)

\* generate_content returns a text: _generate_with_retry returns it stripped
\* and the pass of the loop runs up to its next await or return
GenerateText(r) ==
    /\ Runs(r)
    /\ pc[r] = "generate"
    /\ \E text \in CompletionsFor(message[r]) :
        LET agent_response == Strip(text)
            w              == Called(wrapper[r], None, FALSE, "text")
            scratchpad     == Append(agent_scratchpad[r], agent_response)
            parsed         == ParseAction(agent_response)
        IN  IF ~Truthy(agent_response)
            THEN \* lines 204-210
                 /\ Return(r, "return_rate_limited", RateLimitResult)
                 /\ wrapper' = [wrapper EXCEPT ![r] = w]
                 /\ UNCHANGED <<response_cache, iteration, agent_scratchpad, tools_used,
                                attempt, pending, generate_calls, invoked, full_prompt>>
            ELSE IF HasFinalAnswer(agent_response)
            THEN IF EmailCheckFails(message[r], tools_used[r])
                 THEN /\ NextIteration(r, Append(scratchpad, EmailNotUsedObservation),
                                       tools_used[r], w)
                      /\ UNCHANGED <<response_cache, pending, invoked>>
                 ELSE IF WeatherCheckFails(message[r], tools_used[r])
                 THEN /\ NextIteration(r, Append(scratchpad, WeatherNotUsedObservation),
                                       tools_used[r], w)
                      /\ UNCHANGED <<response_cache, pending, invoked>>
                 ELSE \* lines 237-249
                      /\ response_cache' =
                            IF ShouldCache(needs_tools[r])
                            THEN CachePut(response_cache, CacheKey(message[r]),
                                          ExtractFinalAnswer(agent_response))
                            ELSE response_cache
                      /\ agent_scratchpad' = [agent_scratchpad EXCEPT ![r] = scratchpad]
                      /\ Return(r, "return_final",
                                FinalResult(ExtractFinalAnswer(agent_response),
                                            iteration[r], scratchpad, tools_used[r]))
                      /\ wrapper' = [wrapper EXCEPT ![r] = w]
                      /\ UNCHANGED <<iteration, tools_used, attempt, pending,
                                     generate_calls, invoked, full_prompt>>
            ELSE IF ~parsed.ok
            THEN \* line 338: return None, None
                 /\ AfterAction(r, scratchpad, None, None, w)
                 /\ UNCHANGED <<response_cache, pending, invoked>>
            ELSE IF ResolveTool(parsed.action_name) = 0
            THEN \* lines 355-357
                 /\ AfterAction(r, scratchpad, ToolNotFoundResult(parsed.action_name),
                                None, w)
                 /\ UNCHANGED <<response_cache, pending, invoked>>
            ELSE \* line 351: await tool.func(action_input)
                 /\ pending' = [pending EXCEPT ![r] =
                                  [tool         |-> ResolveTool(parsed.action_name),
                                   action_name  |-> parsed.action_name,
                                   action_input |-> parsed.action_input]]
                 /\ invoked' = [invoked EXCEPT ![r] =
                                  Append(@, tools[ResolveTool(parsed.action_name)].name)]
                 /\ agent_scratchpad' = [agent_scratchpad EXCEPT ![r] = scratchpad]
                 /\ wrapper' = [wrapper EXCEPT ![r] = w]
                 /\ pc' = [pc EXCEPT ![r] = "tool"]
                 /\ UNCHANGED <<response_cache, iteration, tools_used, attempt,
                                generate_calls, result, full_prompt>>
    /\ UNCHANGED <<workload, started, message, needs_tools, wait_time, outcomes,
                   direct_calls, http>>

\* generate_content raises: lines 374-396
GenerateError(r) ==
    /\ Runs(r)
    /\ pc[r] = "generate"
    /\ \E error_str \in workload.errors :
        LET retry_match == RetryMatch(error_str)
            parsed      == ParseFloat(retry_match.group)
            Log(ended)  == [wrapper EXCEPT ![r] =
                              Called(@, error_str, IsRateLimitError(error_str), ended)]
        IN  IF IsRateLimitError(error_str)
            THEN IF RetryAfter(attempt[r])
                 THEN IF retry_match.matched /\ ~parsed.ok
                      THEN \* float() raises ValueError inside the handler
                           /\ Return(r, "return_exception",
                                     ExceptionResult(FloatErrorPrefix \o retry_match.group
                                                        \o Quote))
                           /\ wrapper' = Log("raised")
                           /\ UNCHANGED wait_time
                      ELSE /\ wait_time' = [wait_time EXCEPT ![r] =
                                  IF retry_match.matched THEN <<parsed.num, parsed.den>>
                                  ELSE <<Pow(2, attempt[r]), 1>>]
                           /\ wrapper' = Log("running")
                           /\ pc' = [pc EXCEPT ![r] = "sleep"]
                           /\ UNCHANGED result
                 ELSE \* line 392: return None, then lines 204-210
                      /\ Return(r, "return_rate_limited", RateLimitResult)
                      /\ wrapper' = Log("None")
                      /\ UNCHANGED wait_time
            ELSE \* line 396: raise, caught at line 273
                 /\ Return(r, "return_exception", ExceptionResult(error_str))
                 /\ wrapper' = Log("raised")
                 /\ UNCHANGED wait_time
    /\ UNCHANGED <<workload, response_cache, started, message, needs_tools, iteration,
                   agent_scratchpad, tools_used, attempt, pending, generate_calls,
                   invoked, outcomes, direct_calls, http, full_prompt>>

\* asyncio.sleep(wait_time) returns: the handler is left and the next
\* attempt of the wrapper begins
BackoffSleep(r) ==
    /\ Runs(r)
    /\ pc[r] = "sleep"
    /\ attempt' = [attempt EXCEPT ![r] = @ + 1]
    /\ wait_time' = [wait_time EXCEPT ![r] = NoWait]
    /\ wrapper' = [wrapper EXCEPT ![r].error = None]
    /\ pc' = [pc EXCEPT ![r] = "generate"]
    /\ UNCHANGED <<workload, response_cache, started, message, needs_tools, iteration,
                   agent_scratchpad, tools_used, pending, result, generate_calls,
                   invoked, outcomes, direct_calls, http, full_prompt>>

\* the awaited tool returns or raises: lines 351-354, then lines 254-261
ToolReturn(r) ==
    /\ Runs(r)
    /\ pc[r] = "tool"
    /\ \E outcome \in ToolOutcomesFor(pending[r].tool, pending[r].action_input) :
        /\ AfterAction(r, agent_scratchpad[r],
                       IF outcome.kind = "return" THEN outcome.text
                       ELSE ToolErrorResult(pending[r].action_name, outcome.text),
                       pending[r].action_name, wrapper[r])
        /\ outcomes' = [outcomes EXCEPT ![r] = Append(@, outcome)]
    /\ direct_calls' = [direct_calls EXCEPT ![r] = @ + DirectCalls(pending[r].tool)]
    /\ pending' = [pending EXCEPT ![r] = NoPending]
    /\ UNCHANGED <<workload, response_cache, started, message, needs_tools, wait_time,
                   invoked, http>>

\* process_chat after process_message returned (chat.py lines 19-30): a
\* result that reports no success is answered with HTTPException 500 whose
\* detail is the result's error, any other with a ChatResponse of the
\* result's response and conversation_id.  The locals of the call are gone.
Deliver(r) ==
    /\ Runs(r)
    /\ pc[r] \in ReturnLabels
    /\ http' = [http EXCEPT ![r] =
                  IF ~result[r].success
                  THEN HTTPException(status_error, result[r].error)
                  ELSE ChatResponse(result[r].response, ConversationId(r))]
    /\ pc' = [pc EXCEPT ![r] = "idle"]
    /\ message' = [message EXCEPT ![r] = <<>>]
    /\ needs_tools' = [needs_tools EXCEPT ![r] = FALSE]
    /\ iteration' = [iteration EXCEPT ![r] = 0]
    /\ agent_scratchpad' = [agent_scratchpad EXCEPT ![r] = <<>>]
    /\ tools_used' = [tools_used EXCEPT ![r] = <<>>]
    /\ attempt' = [attempt EXCEPT ![r] = 0]
    /\ result' = [result EXCEPT ![r] = NoResult]
    /\ generate_calls' = [generate_calls EXCEPT ![r] = 0]
    /\ wrapper' = [wrapper EXCEPT ![r] = NewWrapper]
    /\ invoked' = [invoked EXCEPT ![r] = <<>>]
    /\ outcomes' = [outcomes EXCEPT ![r] = <<>>]
    /\ direct_calls' = [direct_calls EXCEPT ![r] = 0]
    /\ full_prompt' = [full_prompt EXCEPT ![r] = <<>>]
    /\ UNCHANGED <<workload, response_cache, started, wait_time, pending>>

Next ==
    \E r \in Reqs :
        \/ Start(r)
        \/ GenerateText(r)
        \/ GenerateError(r)
        \/ BackoffSleep(r)
        \/ ToolReturn(r)
        \/ Deliver(r)

Spec == Init /\ [][Next]_vars

ConcSpec == ConcInit /\ [][Next]_vars

ToolSpec == ToolInit /\ [][Next]_vars

(***************************************************************************)
(* Vocabulary of the properties.                                           *)
(***************************************************************************)
Running(r) == pc[r] \in {"generate", "sleep", "tool"}

Returned(r) == pc[r] \in ReturnLabels

\* the message mentions email: it contains 'email' or 'mail' in any case
MentionsEmail(m) == Contains(Lower(m), kw_email) \/ Contains(Lower(m), kw_mail)

\* the message mentions weather in any case
MentionsWeather(m) == Contains(Lower(m), kw_weather)

\* a tool the message calls for is absent from the list of tools used
RequiredToolMissing(m, used) ==
    \/ MentionsEmail(m) /\ ~InList(name_send_email, used)
    \/ MentionsWeather(m) /\ ~InList(name_get_weather, used)

\* request r takes a completion in this step: the text is the entry the
\* step appends first to the scratchpad
TakesCompletion(r) ==
    /\ pc[r] = "generate"
    /\ Len(agent_scratchpad'[r]) > Len(agent_scratchpad[r])

Completion(r) == agent_scratchpad'[r][Len(agent_scratchpad[r]) + 1]

\* the pass of the loop ends and the loop goes on: the next pass begins, or
\* the passes are used up and the loop ends with the summary of line 264
LoopGoesOn(r) ==
    \/ /\ pc'[r] = "generate"
       /\ iteration'[r] = iteration[r] + 1
       /\ result'[r] = NoResult
    \/ /\ iteration[r] = 4
       /\ pc'[r] = "return_ceiling"

(***************************************************************************)
(* C1  A request whose message mentions email never gets a completion's    *)
(* Final Answer as its response while 'send_email' is absent from          *)
(* tools_used, and likewise weather and 'get_weather': a step that takes a *)
(* completion with a Final Answer while the tool is absent appends the     *)
(* completion and a corrective Observation and goes on with the loop, and  *)
(* no returned result of such a request carries the Final Answer of one of *)
(* its completions.                                                        *)
(***************************************************************************)
C1_RejectsUnverifiedFinalAnswer ==
    /\ [](\A r \in Reqs :
            (Returned(r) /\ RequiredToolMissing(message[r], tools_used[r])) =>
                /\ pc[r] # "return_final"
                /\ \A i \in 1..Len(agent_scratchpad[r]) :
                      HasFinalAnswer(agent_scratchpad[r][i]) =>
                          result[r].response # ExtractFinalAnswer(agent_scratchpad[r][i]))
    /\ [][\A r \in Reqs :
            ( /\ TakesCompletion(r)
              /\ HasFinalAnswer(Completion(r))
              /\ RequiredToolMissing(message[r], tools_used[r]) ) =>
                /\ Len(agent_scratchpad'[r]) = Len(agent_scratchpad[r]) + 2
                /\ agent_scratchpad'[r][Len(agent_scratchpad'[r])] \in
                      {EmailNotUsedObservation, WeatherNotUsedObservation}
                /\ tools_used'[r] = tools_used[r]
                /\ LoopGoesOn(r)]_vars

\* a Final Answer was rejected for the missing send_email, the tool was then
\* used, and a later Final Answer is the response
C1_Witness ==
    \E r \in Reqs :
        /\ pc[r] = "return_final"
        /\ MentionsEmail(message[r])
        /\ InList(EmailNotUsedObservation, agent_scratchpad[r])
        /\ InList(name_send_email, tools_used[r])

(***************************************************************************)
(* C2  A Final Answer is returned as the response only if every capability *)
(* the keyword classification of the message implies (weather, task, time, *)
(* email, contact, search) has a tool of its own in tools_used.            *)
(***************************************************************************)
\* the tools of each capability of the classification
CapabilityTools ==
    [weather       |-> {tools[1].name},
     task          |-> {tools[2].name, tools[3].name, tools[4].name},
     time          |-> {tools[5].name},
     email         |-> {tools[6].name},
     contact       |-> {tools[7].name, tools[8].name, tools[9].name},
     stackoverflow |-> {tools[13].name}]

\* the capabilities the keywords of the message imply
ImpliedCapabilities(m) ==
    {category \in DOMAIN tool_keywords :
        \E i \in 1..Len(tool_keywords[category]) :
            Contains(Lower(m), tool_keywords[category][i])}

C2_FinalAnswerNeedsEveryCapability ==
    \A r \in Reqs :
        pc[r] = "return_final" =>
            \A category \in ImpliedCapabilities(message[r]) :
                \E i \in 1..Len(tools_used[r]) :
                    Lower(tools_used[r][i]) \in
                        {Lower(n) : n \in CapabilityTools[category]}

(***************************************************************************)
(* C3  Every call of process_message ends after at most 5 calls of         *)
(* _generate_with_retry: the number of calls never exceeds 5, and every    *)
(* step of a running request lowers a rank that is a natural number, so    *)
(* no request runs forever, whatever completions, errors and tool results  *)
(* arrive.                                                                 *)
(***************************************************************************)
\* the passes, the attempts and the awaits a running request has left
Rank(r) ==
    IF ~Running(r) THEN 0
    ELSE (5 - iteration[r]) * 12 + (3 - attempt[r]) * 3
            + (CASE pc[r] = "generate" -> 2 [] pc[r] = "sleep" -> 1 [] OTHER -> 0)

C3_TerminatesWithinFiveCalls ==
    /\ [](\A r \in Reqs :
            /\ generate_calls[r] <= 5
            /\ Running(r) => generate_calls[r] = iteration[r] + 1
            /\ Rank(r) \in Nat)
    /\ [][\A r \in Reqs :
            (Running(r) /\ <<pc[r], iteration[r], attempt[r]>>' #
                           <<pc[r], iteration[r], attempt[r]>>) =>
                Rank(r)' < Rank(r)]_vars

\* the fifth call of _generate_with_retry has been made and the loop ended
\* at the ceiling
C3_Witness ==
    \E r \in Reqs : pc[r] = "return_ceiling" /\ generate_calls[r] = 5

(***************************************************************************)
(* C4  When every generate_content call of a _generate_with_retry call     *)
(* raises a rate-limit error, the wrapper makes exactly 3 calls and then   *)
(* returns None; it does not raise.                                        *)
(***************************************************************************)
C4_RateLimitedThreeCallsThenNone ==
    \A r \in Reqs :
        (wrapper[r].ended # "running" /\ wrapper[r].rate_limited_only) =>
            /\ wrapper[r].calls = 3
            /\ wrapper[r].ended = "None"

(***************************************************************************)
(* C5  When generate_content raises an error whose message contains        *)
(* neither 'quota' nor 'rate', on whichever attempt, the wrapper makes no  *)
(* further attempt and waits for nothing, and the error reaches the        *)
(* caller: process_message ends with that error.                           *)
(***************************************************************************)
\* the message contains neither 'quota' nor 'rate' in any case
NotARateLimitMessage(e) ==
    ~Contains(Lower(e), kw_quota) /\ ~Contains(Lower(e), kw_rate)

C5_OtherErrorsAreNotRetried ==
    /\ [](\A r \in Reqs :
            (wrapper[r].error # None /\ NotARateLimitMessage(wrapper[r].error)) =>
                /\ wrapper[r].ended = "raised"
                /\ wait_time[r] = NoWait
                /\ pc[r] = "return_exception"
                /\ result[r].success = FALSE
                /\ result[r].error = wrapper[r].error)
    /\ [][\A r \in Reqs :
            pc[r] = "return_exception" =>
                /\ pc'[r] \in {"return_exception", "idle"}
                /\ wrapper'[r].calls <= wrapper[r].calls]_vars

\* the error that is no rate-limit error came on the third attempt
C5_Witness ==
    \E r \in Reqs :
        /\ wrapper[r].error = err_api_key
        /\ wrapper[r].calls = 3
        /\ pc[r] = "return_exception"

(***************************************************************************)
(* C6  When _generate_with_retry returns None, in whichever pass of the    *)
(* loop, process_message returns at once with success = False: the step    *)
(* awaits no tool, calls the wrapper no more and leaves the cache as it    *)
(* is, and nothing more happens in the request.                            *)
(***************************************************************************)
C6_RateLimitEndsRequest ==
    /\ [][\A r \in Reqs :
            (wrapper[r].ended = "running" /\ wrapper'[r].ended = "None") =>
                /\ pc'[r] = "return_rate_limited"
                /\ result'[r].success = FALSE
                /\ invoked'[r] = invoked[r]
                /\ pending'[r] = NoPending
                /\ generate_calls'[r] = generate_calls[r]
                /\ agent_scratchpad'[r] = agent_scratchpad[r]
                /\ response_cache' = response_cache]_vars
    /\ [][\A r \in Reqs :
            pc[r] = "return_rate_limited" =>
                /\ pc'[r] \in {"return_rate_limited", "idle"}
                /\ pc'[r] = "idle" => response_cache' = response_cache
                /\ wrapper'[r].calls <= wrapper[r].calls
                /\ Len(invoked'[r]) <= Len(invoked[r])]_vars

\* the wrapper returned None in a later pass, after a tool had been used
C6_Witness ==
    \E r \in Reqs :
        /\ pc[r] = "return_rate_limited"
        /\ wrapper[r].ended = "None"
        /\ iteration[r] >= 1
        /\ invoked[r] # <<>>

(***************************************************************************)
(* C7  A call of process_message with a message that is classified as not  *)
(* requiring tools and whose normalized (lower-cased, trimmed) text is a   *)
(* key of the cache returns the cached text with iterations = 0, and makes *)
(* no completion call and no tool invocation.                              *)
(***************************************************************************)
\* the message lower-cased and trimmed
Normalized(m) == Strip(Lower(m))

C7_CacheHitReturnsCachedText ==
    /\ [][\A r \in Reqs :
            ( /\ pc[r] = "idle"
              /\ pc'[r] # "idle"
              /\ ~RequiresTools(message'[r])
              /\ Normalized(message'[r]) \in DOMAIN response_cache ) =>
                /\ pc'[r] = "return_cached"
                /\ result'[r].response = response_cache[Normalized(message'[r])]
                /\ result'[r].iterations = 0
                /\ result'[r].success]_vars
    /\ [](\A r \in Reqs :
            pc[r] = "return_cached" =>
                /\ generate_calls[r] = 0
                /\ wrapper[r].calls = 0
                /\ invoked[r] = <<>>)
    /\ [][\A r \in Reqs :
            pc[r] = "return_cached" => pc'[r] \in {"return_cached", "idle"}]_vars

\* ' Hello' is answered from the cache with the text cached for 'hello'
C7_Witness ==
    \E r \in Reqs :
        /\ pc[r] = "return_cached"
        /\ message[r] = msg_Hello
        /\ DOMAIN response_cache = {msg_hello}
        /\ result[r].response = response_cache[msg_hello]
        /\ result[r].iterations = 0

(***************************************************************************)
(* C8  The cache changes only in a step in which a request classified as   *)
(* not requiring tools returns an accepted Final Answer, and then the      *)
(* answer is stored under the normalized message and nothing else          *)
(* changes; every such return stores the answer.  Requests that require    *)
(* tools, rate-limited and failed requests, cache hits and requests that   *)
(* end at the ceiling leave the cache as it is.                            *)
(***************************************************************************)
\* request r returns an accepted Final Answer in this step
AcceptsFinalAnswer(r) == pc[r] = "generate" /\ pc'[r] = "return_final"

\* the cache after the step is the cache before it with value under key
Stored(key, value) ==
    /\ DOMAIN response_cache' = DOMAIN response_cache \cup {key}
    /\ response_cache'[key] = value
    /\ \A k \in DOMAIN response_cache \ {key} : response_cache'[k] = response_cache[k]

C8_CacheWrittenOnlyByToolFreeAnswers ==
    /\ [][response_cache' # response_cache =>
            \E r \in Reqs :
                /\ AcceptsFinalAnswer(r)
                /\ ~RequiresTools(message[r])
                /\ Stored(Normalized(message[r]), result'[r].response)]_vars
    /\ [][\A r \in Reqs :
            (AcceptsFinalAnswer(r) /\ ~RequiresTools(message[r])) =>
                Stored(Normalized(message[r]), result'[r].response)]_vars

\* a request that requires no tools has its answer in the cache, and one
\* that requires tools has returned a Final Answer with the cache unwritten
C8_Witness ==
    \E r \in Reqs :
        /\ pc[r] = "return_final"
        /\ RequiresTools(message[r])
        /\ DOMAIN response_cache = {msg_hello}

(***************************************************************************)
(* C9  When a resolved tool raises, the exception stays inside the loop:   *)
(* the Observation 'Error executing <name>: <message>' is appended, the    *)
(* loop goes on with its next pass (or ends at the ceiling with            *)
(* success = True), and the request does not end with success = False      *)
(* in that step.                                                           *)
(***************************************************************************)
\* the awaited tool of request r raises in this step
ToolRaises(r) ==
    /\ pc[r] = "tool"
    /\ Len(outcomes'[r]) = Len(outcomes[r]) + 1
    /\ outcomes'[r][Len(outcomes'[r])].kind = "raise"

C9_ToolExceptionBecomesObservation ==
    [][\A r \in Reqs :
        ToolRaises(r) =>
            /\ agent_scratchpad'[r] =
                  Append(agent_scratchpad[r],
                         ObservationPrefix \o ErrorExecutingPrefix
                            \o pending[r].action_name \o ColonSpace
                            \o outcomes'[r][Len(outcomes'[r])].text \o Newline)
            /\ LoopGoesOn(r)
            /\ pc'[r] # "return_exception"
            /\ Returned(r)' => result'[r].success]_vars

\* a tool raised and the request went on to return a Final Answer
C9_Witness ==
    \E r \in Reqs :
        /\ pc[r] = "return_final"
        /\ result[r].success
        /\ \E i \in 1..Len(outcomes[r]) : outcomes[r][i].kind = "raise"

(***************************************************************************)
(* C10  When a completion names an Action that matches no registered tool, *)
(* no tool is invoked, the Observation appended lists exactly the names of *)
(* all registered tools, tools_used is unchanged and the loop goes on.     *)
(***************************************************************************)
AvailableToolsMarker == <<"A","v","a","i","l","a","b","l","e"," ","t","o","o","l","s",":"," ">>

\* the names an Observation lists after 'Available tools: '
ListedTools(observation) ==
    Split(Strip(AfterLast(observation, AvailableToolsMarker)), CommaSpace)

\* the completion is no Final Answer and names an Action no registered tool
\* has, in any letter case
NamesUnknownTool(text) ==
    /\ ~HasFinalAnswer(text)
    /\ ParseAction(text).ok
    /\ \A i \in 1..Len(tools) :
          Lower(tools[i].name) # Lower(ParseAction(text).action_name)

C10_UnknownToolListsRegistry ==
    [][\A r \in Reqs :
        (TakesCompletion(r) /\ NamesUnknownTool(Completion(r))) =>
            /\ invoked'[r] = invoked[r]
            /\ pc'[r] # "tool"
            /\ tools_used'[r] = tools_used[r]
            /\ Len(agent_scratchpad'[r]) = Len(agent_scratchpad[r]) + 2
            /\ ListedTools(agent_scratchpad'[r][Len(agent_scratchpad'[r])]) =
                  [i \in 1..Len(tools) |-> tools[i].name]
            /\ LoopGoesOn(r)]_vars

\* a completion asked for the tool 'fly' and the loop went on
C10_Witness ==
    \E r \in Reqs :
        /\ pc[r] = "generate"
        /\ agent_scratchpad[r] # <<>>
        /\ Contains(agent_scratchpad[r][Len(agent_scratchpad[r])], ToolNotFoundMiddle)
        /\ invoked[r] = <<>>
        /\ tools_used[r] = <<>>

(***************************************************************************)
(* C11  When the fifth pass of the loop ends without an accepted Final     *)
(* Answer, process_message returns the ceiling result: success is true,    *)
(* there is no error field, iterations is max_iterations, five completion  *)
(* calls were made, and the response contains the last entry of the        *)
(* scratchpad; process_chat answers it with a 200 reply, not a failure.    *)
(***************************************************************************)
\* the step ends the last pass of the loop of request r, and not with an
\* accepted Final Answer: the completion is handled without a tool, or the
\* awaited tool is done
EndsLastPassUnaccepted(r) ==
    /\ iteration[r] = max_iterations - 1
    /\ \/ TakesCompletion(r) /\ pc'[r] # "tool" /\ ~AcceptsFinalAnswer(r)
       \/ pc[r] = "tool" /\ pc'[r] # "tool"

RaisedText(error_str) ==
    IF NotARateLimitMessage(error_str) THEN error_str
    ELSE FloatErrorPrefix \o RetryMatch(error_str).group \o Quote

C12_ExceptionsBecomeFailureResults ==
    /\ [][\A r \in Reqs :
            (wrapper[r].ended = "running" /\ wrapper'[r].ended = "raised") =>
                /\ pc'[r] = "return_exception"
                /\ result'[r].success = FALSE
                /\ result'[r].error = RaisedText(wrapper'[r].error)
                /\ Contains(result'[r].response, result'[r].error)]_vars
    /\ [](\A r \in Reqs :
            wrapper[r].ended = "raised" <=> pc[r] = "return_exception")
    /\ [](\A r \in Reqs :
            pc[r] \in {"idle", "generate", "sleep", "tool"} \/
                (pc[r] \in ReturnLabels /\ result[r] # NoResult))

\* a completion call failed with 'API key not valid' in a later pass, after
\* a tool had run, and the call returned the failure result
C12_Witness ==
    \E r \in Reqs :
        /\ pc[r] = "return_exception"
        /\ result[r].error = err_api_key
        /\ ~result[r].success
        /\ iteration[r] >= 1
        /\ invoked[r] # <<>>

(***************************************************************************)
(* C13  process_message returns success false only for rate limiting or    *)
(* an exception: a request that has returned the rate-limit failure        *)
(* ('Rate limit exceeded') made max_retries generate_content calls in the  *)
(* completion call that ended it, every one of which raised a quota/rate   *)
(* error; and every result with success false is that result or the        *)
(* result of an exception.                                                 *)
(***************************************************************************)
C13_RateLimitFailureMeansRateLimited ==
    \A r \in Reqs :
        /\ (Returned(r) /\ result[r] = RateLimitResult) =>
                /\ wrapper[r].calls = max_retries
                /\ wrapper[r].rate_limited_only
                /\ wrapper[r].ended = "None"
        /\ (Returned(r) /\ ~result[r].success) =>
                pc[r] \in {"return_rate_limited", "return_exception"}

(***************************************************************************)
(* C14  A completion that contains 'Final Answer:' never starts a tool in  *)
(* its pass, also when it contains Action: and Action Input: lines that    *)
(* parse: no tool is awaited, tools_used is unchanged, and the text is     *)
(* either accepted (the call returns its Final Answer) or rejected by the  *)
(* verification (one corrective Observation follows it and the loop goes   *)
(* on).                                                                    *)
(***************************************************************************)
\* the step appends the completion and one of the two corrective
\* Observations of the verification
RejectsFinalAnswer(r) ==
    /\ Len(agent_scratchpad'[r]) = Len(agent_scratchpad[r]) + 2
    /\ agent_scratchpad'[r][Len(agent_scratchpad'[r])] \in
          {EmailNotUsedObservation, WeatherNotUsedObservation}
    /\ LoopGoesOn(r)

C14_FinalAnswerWinsOverAction ==
    [][\A r \in Reqs :
        (TakesCompletion(r) /\ Contains(Completion(r), FinalAnswerMarker)) =>
            /\ pc'[r] # "tool"
            /\ invoked'[r] = invoked[r]
            /\ pending'[r] = pending[r]
            /\ tools_used'[r] = tools_used[r]
            /\ \/ /\ AcceptsFinalAnswer(r)
                  /\ Len(agent_scratchpad'[r]) = Len(agent_scratchpad[r]) + 1
               \/ RejectsFinalAnswer(r)]_vars

\* a completion with Action lines that parse and name a registered tool and
\* with a Final Answer was accepted without any tool being started
C14_Witness ==
    \E r \in Reqs :
        /\ pc[r] = "return_final"
        /\ invoked[r] = <<>>
        /\ Len(agent_scratchpad[r]) = 1
        /\ ParseAction(agent_scratchpad[r][1]).ok
        /\ ResolveTool(ParseAction(agent_scratchpad[r][1]).action_name) # 0
        /\ Contains(agent_scratchpad[r][1], FinalAnswerMarker)
        /\ result[r].tools_used = <<>>

(***************************************************************************)
(* C15  For a completion that contains 'Final Answer:' after an Action: /  *)
(* Action Input: pair, the Final Answer returned is the text that follows  *)
(* the last 'Final Answer:' marker up to the first 'Thought:' or 'Action:' *)
(* in it (or to its end), trimmed of surrounding white space at each step. *)
(* As first stated - exactly the whole text after the last marker,         *)
(* trimmed - it fails for a completion that goes on with 'Thought:' or     *)
(* 'Action:' after its answer.                                             *)
(***************************************************************************)
\* 'Final Answer:' occurs after an Action: and a following Action Input:
FinalAnswerAfterActionPair(text) ==
    \E a \in Occurrences(text, ActionMarker) :
        \E i \in Occurrences(text, ActionInputMarker) :
            \E f \in Occurrences(text, FinalAnswerMarker) : a < i /\ i < f

\* the text after the last 'Final Answer:' of text, trimmed
TrimmedAfterLastMarker(text) ==
    LET last == CHOOSE p \in Occurrences(text, FinalAnswerMarker) :
                    \A q \in Occurrences(text, FinalAnswerMarker) : q <= p
    IN  Strip(SubSeq(text, last + Len(FinalAnswerMarker), Len(text)))

\* answer is what is left of t before its first 'Thought:' or 'Action:',
\* trimmed
IsCutAtNextSection(t, answer) ==
    \E n \in 0..Len(t) :
        /\ answer = Strip(SubSeq(t, 1, n))
        /\ \A k \in 1..n :
              ~StartsAt(t, ThoughtMarker, k) /\ ~StartsAt(t, ActionMarker, k)
        /\ \/ n = Len(t)
           \/ StartsAt(t, ThoughtMarker, n + 1)
           \/ StartsAt(t, ActionMarker, n + 1)

\* the claim as first stated
C15_ExactlyTextAfterLastMarker ==
    [][\A r \in Reqs :
        (AcceptsFinalAnswer(r) /\ FinalAnswerAfterActionPair(Completion(r))) =>
            result'[r].response = TrimmedAfterLastMarker(Completion(r))]_vars

\* C15 as amended: the returned answer is the trimmed text after the last
\* marker, cut before its first 'Thought:' or 'Action:' and trimmed again
C15_TextAfterLastMarkerUpToNextSection ==
    [][\A r \in Reqs :
        (AcceptsFinalAnswer(r) /\ FinalAnswerAfterActionPair(Completion(r))) =>
            IsCutAtNextSection(TrimmedAfterLastMarker(Completion(r)),
                               result'[r].response)]_vars

\* a completion with two markers and one that goes on after its answer have
\* been returned: the answer of the last marker, cut before 'Thought:'
C15_Witness ==
    \E r \in Reqs :
        /\ pc[r] = "return_final"
        /\ FinalAnswerAfterActionPair(agent_scratchpad[r][Len(agent_scratchpad[r])])
        /\ Contains(TrimmedAfterLastMarker(agent_scratchpad[r][Len(agent_scratchpad[r])]),
                    ThoughtMarker)
        /\ ~Contains(result[r].response, ThoughtMarker)
        /\ result[r].response # <<>>

(***************************************************************************)
(* C16  A completion without 'Final Answer:' that lacks 'Action:' or lacks *)
(* 'Action Input:' starts no tool: nothing is awaited, tools_used is       *)
(* unchanged, the Observation that states the required format is appended  *)
(* after the completion, and the loop goes on with the pass counted (the   *)
(* next pass has the next iteration number and makes the next completion   *)
(* call, or the pass was the fifth and the loop ends at the ceiling).      *)
(***************************************************************************)
\* the text is no Final Answer and has no Action: or no Action Input: in
\* any letter case
LacksActionOrInput(text) ==
    /\ ~Contains(text, FinalAnswerMarker)
    /\ \/ ~Contains(Lower(text), Lower(ActionMarker))
       \/ ~Contains(Lower(text), Lower(ActionInputMarker))

KeysWritten ==
    {k \in DOMAIN response_cache' :
        k \notin DOMAIN response_cache \/ response_cache'[k] # response_cache[k]}

C17_CacheStaysWellFormedUnderInterleaving ==
    /\ [][/\ DOMAIN response_cache \subseteq DOMAIN response_cache'
          /\ \A k \in KeysWritten :
                \E r \in Reqs :
                    /\ AcceptsFinalAnswer(r)
                    /\ Normalized(message[r]) = k
                    /\ response_cache'[k] = result'[r].response]_vars
    /\ [](\A k \in DOMAIN response_cache :
            /\ \E m \in workload.messages : Normalized(m) = k
            /\ DOMAIN response_cache[k] = 1..Len(response_cache[k]))
    /\ [][\A r \in Reqs :
            (AcceptsFinalAnswer(r) /\ Normalized(message[r]) \in DOMAIN response_cache) =>
                /\ response_cache'[Normalized(message[r])] = result'[r].response
                /\ result'[r].success
                /\ \A q \in Reqs \ {r} :
                      /\ pc'[q] = pc[q]
                      /\ result'[q] = result[q]
                      /\ agent_scratchpad'[q] = agent_scratchpad[q]]_vars
    /\ [](\A r \in Reqs : pc[r] = "return_final" => result[r].success)

\* two requests with the same key both missed and both inserted: both have
\* returned their own answer with success, and the cache holds one of them
C17_Witness ==
    /\ pc[1] = "return_final"
    /\ pc[2] = "return_final"
    /\ Normalized(message[1]) = Normalized(message[2])
    /\ message[1] # message[2]
    /\ result[1].success
    /\ result[2].success
    /\ result[1].response # result[2].response
    /\ response_cache[Normalized(message[1])] = result[2].response

(***************************************************************************)
(* C18  When the add_contact tool has been invoked for the request 'add    *)
(* contact alias: sam, email: sam@x.com' and its backend call fails, the   *)
(* Observation appended for it contains the word 'Error', the request is   *)
(* not aborted, and the loop goes on.                                      *)
(***************************************************************************)
ErrorWord == <<"E","r","r","o","r">>

\* the awaited add_contact call of request r returns in this step after its
\* backend call failed
AddContactBackendFails(r) ==
    /\ pc[r] = "tool"
    /\ tools[pending[r].tool].name = name_add_contact
    /\ Len(outcomes'[r]) = Len(outcomes[r]) + 1
    /\ outcomes'[r][Len(outcomes'[r])].backend = "failed"

C18_AddContactFailureGivesErrorObservation ==
    [][\A r \in Reqs :
        (message[r] = msg_contact /\ AddContactBackendFails(r)) =>
            /\ Contains(agent_scratchpad'[r][Len(agent_scratchpad'[r])], ErrorWord)
            /\ LoopGoesOn(r)]_vars

(***************************************************************************)
(* C19  Every chat request is answered with a response object that carries *)
(* the response text and the conversation_id of the request, also when the *)
(* result of process_message has success false (rate limiting, or an       *)
(* exception).                                                             *)
(***************************************************************************)
C19_CallerAlwaysGetsResponseObject ==
    \A r \in Reqs :
        http[r] # NoReply =>
            /\ "response" \in DOMAIN http[r]
            /\ "conversation_id" \in DOMAIN http[r]
            /\ http[r].conversation_id = ConversationId(r)

(***************************************************************************)
(* C20  The scratchpad of a request never holds two Observations in a row: *)
(* every entry that is an Observation (a tool result, tool-not-found, the  *)
(* format reminder or a rejection by the verification) is not the first    *)
(* entry and directly follows an entry that is a model output; the same    *)
(* holds of the reasoning a result carries.                                *)
(***************************************************************************)
\* the entry is one the loop appended as an Observation
IsObservation(entry) == StartsAt(entry, ObservationPrefix, 1)

NoTwoObservationsInARow(scratchpad) ==
    \A i \in 1..Len(scratchpad) :
        IsObservation(scratchpad[i]) =>
            /\ i > 1
            /\ ~IsObservation(scratchpad[i - 1])

C20_NoConsecutiveObservations ==
    \A r \in Reqs :
        /\ NoTwoObservationsInARow(agent_scratchpad[r])
        /\ (Returned(r) /\ "reasoning" \in DOMAIN result[r]) =>
                NoTwoObservationsInARow(result[r].reasoning)

\* a scratchpad with a tool result, a tool-not-found Observation and a
\* later model output
C20_Witness ==
    \E r \in Reqs :
        /\ Len(agent_scratchpad[r]) >= 5
        /\ IsObservation(agent_scratchpad[r][2])
        /\ IsObservation(agent_scratchpad[r][4])
        /\ Contains(agent_scratchpad[r][2], out_discord)
        /\ Contains(agent_scratchpad[r][4], ToolNotFoundMiddle)
        /\ ~IsObservation(agent_scratchpad[r][5])

(***************************************************************************)
(* C21  Each pass of the loop makes exactly one completion call and starts *)
(* at most one tool: a request in its pass number i has made i + 1         *)
(* completion calls and started at most i + 1 tools, a tool is started     *)
(* only in a step that takes a completion, and when the awaited tool is    *)
(* done the pass is over.  A completion with several Action: / Action      *)
(* Input: pairs starts only the tool its first pair names.                 *)
(***************************************************************************)
\* the text holds more than one Action: and more than one Action Input:
SeveralActionPairs(text) ==
    /\ \E a, b \in Occurrences(text, ActionMarker) : a # b
    /\ \E a, b \in Occurrences(text, ActionInputMarker) : a # b

C21_OneCompletionOneToolPerIteration ==
    /\ [](\A r \in Reqs :
            /\ Running(r) => generate_calls[r] = iteration[r] + 1
            /\ (Returned(r) /\ pc[r] # "return_cached") =>
                    generate_calls[r] = iteration[r] + 1
            /\ Len(invoked[r]) <= generate_calls[r])
    /\ [][\A r \in Reqs :
            /\ Len(invoked'[r]) > Len(invoked[r]) =>
                  /\ TakesCompletion(r)
                  /\ Len(invoked'[r]) = Len(invoked[r]) + 1
                  /\ pc'[r] = "tool"
            /\ (pc[r] = "tool" /\ pc'[r] # "tool") =>
                  /\ invoked'[r] = invoked[r]
                  /\ LoopGoesOn(r)
            /\ (TakesCompletion(r) /\ SeveralActionPairs(Completion(r))
                    /\ ~Contains(Completion(r), FinalAnswerMarker)) =>
                  /\ Len(invoked'[r]) = Len(invoked[r]) + 1
                  /\ StartsAt(Completion(r),
                              ActionMarker \o <<" ">> \o pending'[r].action_name \o Newline,
                              SetMin(Occurrences(Completion(r), ActionMarker)))]_vars

\* a completion with two pairs has been handled: one tool ran, the pass is
\* over and the next completion call is under way
C21_Witness ==
    \E r \in Reqs :
        /\ pc[r] = "generate"
        /\ iteration[r] = 1
        /\ generate_calls[r] = 2
        /\ agent_scratchpad[r][1] = txt_two_actions
        /\ invoked[r] = <<name_get_current_time>>
        /\ tools_used[r] = <<name_get_current_time>>

(***************************************************************************)
(* C22.  The scratchpad of a request only grows, and the prompt of every   *)
(* pass after the first is the template, a blank line, every scratchpad    *)
(* entry so far in the order of appending, one per line, and the           *)
(* "Continue your reasoning:" suffix; the Observation of a pass is the last *)
(* entry of the scratchpad the prompt of the next pass is built from.      *)
(***************************************************************************)
\* the entries laid out in t from position pos on, a newline between two of
\* them, and the suffix after the last one up to the end of t
RECURSIVE C22_LaidOut(_, _, _, _)
C22_LaidOut(t, entries, pos, suffix) ==
    /\ entries # <<>>
    /\ StartsAt(t, Head(entries), pos)
    /\ IF Len(entries) = 1
       THEN /\ StartsAt(t, suffix, pos + Len(Head(entries)))
            /\ Len(t) = pos + Len(Head(entries)) + Len(suffix) - 1
       ELSE /\ StartsAt(t, <<"\n">>, pos + Len(Head(entries)))
            /\ C22_LaidOut(t, Tail(entries), pos + Len(Head(entries)) + 1, suffix)

C22_PromptShowsScratchpad ==
    \A r \in Reqs :
        (pc[r] \in {"generate", "sleep"} /\ iteration[r] >= 1) =>
            LET template == IF needs_tools[r]
                            THEN ToolPromptHead \o message[r] \o ToolPromptTail
                            ELSE GeneralPromptHead \o message[r] \o GeneralPromptTail
                last == agent_scratchpad[r][Len(agent_scratchpad[r])]
            IN  /\ Len(agent_scratchpad[r]) = 2 * iteration[r]
                /\ StartsAt(full_prompt[r], template, 1)
                /\ StartsAt(full_prompt[r], <<"\n", "\n">>, Len(template) + 1)
                /\ C22_LaidOut(full_prompt[r], agent_scratchpad[r],
                               Len(template) + 3, ContinueSuffix)
                /\ StartsAt(last, ObservationPrefix, 1)

C22_AppendOnly ==
    \A r \in Reqs :
        pc'[r] # "idle" =>
            /\ Len(agent_scratchpad'[r]) >= Len(agent_scratchpad[r])
            /\ SubSeq(agent_scratchpad'[r], 1, Len(agent_scratchpad[r]))
                   = agent_scratchpad[r]

C22_ScratchpadAppendOnlyAndPromptInOrder ==
    /\ []C22_PromptShowsScratchpad
    /\ [][C22_AppendOnly]_vars

\* the third pass of a request is asking for its completion with a prompt
\* that shows two completions and two Observations
C22_Witness ==
    \E r \in Reqs :
        /\ pc[r] = "generate"
        /\ iteration[r] = 2
        /\ Len(agent_scratchpad[r]) = 4
        /\ agent_scratchpad[r][1] # agent_scratchpad[r][3]
        /\ Len(full_prompt[r]) > Len(agent_scratchpad[r][1]) + Len(agent_scratchpad[r][2])
                                 + Len(agent_scratchpad[r][3]) + Len(agent_scratchpad[r][4])

(***************************************************************************)
(* C23.  After a rate-limit error on attempt a (counted from 0) that is    *)
(* not the last attempt, _generate_with_retry waits 2^a seconds, or the N  *)
(* seconds of a "retry in N s" in the error text; no wait follows the last *)
(* attempt, so a completion call waits at most max_retries - 1 times.      *)
(***************************************************************************)
\* the wait the claim describes for error_str on attempt a, as a fraction
C23_ClaimedWait(error_str, a) ==
    LET retry_match == RetryMatch(error_str)
    IN  IF retry_match.matched /\ ParseFloat(retry_match.group).ok
        THEN <<ParseFloat(retry_match.group).num, ParseFloat(retry_match.group).den>>
        ELSE <<Pow(2, a), 1>>

\* the step is generate_content raising a rate-limit error for request r
C23_RateLimitErrorStep(r) ==
    /\ pc[r] = "generate"
    /\ wrapper'[r].calls = wrapper[r].calls + 1
    /\ wrapper'[r].error # None
    /\ IsRateLimitError(wrapper'[r].error)

C23_WaitsStep ==
    \A r \in Reqs :
        C23_RateLimitErrorStep(r) =>
            IF attempt[r] < max_retries - 1
            THEN /\ pc'[r] = "sleep"
                 /\ wait_time'[r] = C23_ClaimedWait(wrapper'[r].error, attempt[r])
            ELSE pc'[r] # "sleep"

C23_BackoffWaits ==
    /\ [](\A r \in Reqs : attempt[r] <= max_retries - 1)
    /\ [][C23_WaitsStep]_vars

(***************************************************************************)
(* C24.  Requests in flight together share no mutable state but the        *)
(* response cache: a step of one request leaves the scratchpad, the        *)
(* tools_used and the other locals of every other request as they were,    *)
(* and a request's scratchpad and tools_used hold only what its own        *)
(* completions and tool invocations produced.                              *)
(***************************************************************************)
\* the locals of process_message for request r
C24_Locals(r) ==
    <<pc[r], message[r], needs_tools[r], iteration[r], agent_scratchpad[r],
      tools_used[r], attempt[r], wait_time[r], pending[r], full_prompt[r], result[r]>>

C24_LocalsNext(r) ==
    <<pc'[r], message'[r], needs_tools'[r], iteration'[r], agent_scratchpad'[r],
      tools_used'[r], attempt'[r], wait_time'[r], pending'[r], full_prompt'[r],
      result'[r]>>

C24_OneRequestPerStep ==
    \A r, q \in Reqs :
        (r # q /\ C24_LocalsNext(r) # C24_Locals(r)) => C24_LocalsNext(q) = C24_Locals(q)

\* every entry of r's scratchpad at an odd place is a completion the endpoint
\* gave for r's message, there are at most two entries for each completion
\* call r made, and every name in r's tools_used is, ignoring case, the name
\* of a tool r itself invoked
C24_OwnEntriesOnly ==
    \A r \in Reqs :
        /\ Len(agent_scratchpad[r]) <= 2 * generate_calls[r]
        /\ \A k \in 1..Len(agent_scratchpad[r]) :
               k % 2 = 1 => \E text \in CompletionsFor(message[r]) :
                                agent_scratchpad[r][k] = Strip(text)
        /\ Len(tools_used[r]) <= Len(invoked[r])
        /\ \A k \in 1..Len(tools_used[r]) :
               \E j \in 1..Len(invoked[r]) : Lower(tools_used[r][k]) = Lower(invoked[r][j])

C24_RequestsShareOnlyTheCache ==
    /\ []C24_OwnEntriesOnly
    /\ [][C24_OneRequestPerStep]_vars

\* two requests are in flight, each with a scratchpad of its own, and only
\* one of them has invoked a tool
C24_Witness ==
    \E r, q \in Reqs :
        /\ r # q
        /\ Running(r) /\ Running(q)
        /\ agent_scratchpad[r] # <<>> /\ agent_scratchpad[q] # <<>>
        /\ agent_scratchpad[r] # agent_scratchpad[q]
        /\ tools_used[r] # <<>> /\ tools_used[q] = <<>>

(***************************************************************************)
(* C25.  While a request waits in the backoff sleep of the retry wrapper,  *)
(* every other request in flight can take its next step (and so, step by   *)
(* step, complete): the sleep suspends only the request that backs off.    *)
(***************************************************************************)
\* request q can take its next step; where q waits for the completion
\* endpoint, the step looked at is the endpoint raising, which the loop lets
\* run exactly when it lets the endpoint's text run
C25_CanStep(q) ==
    CASE pc[q] = "generate" -> ENABLED GenerateError(q)
      [] pc[q] = "sleep"    -> ENABLED BackoffSleep(q)
      [] pc[q] = "tool"     -> ENABLED ToolReturn(q)
      [] OTHER              -> ENABLED Deliver(q)

C25_SleepSuspendsOnlyTheSleeper ==
    \A r \in Reqs : \A q \in Reqs \ {r} :
        ( /\ pc[r] = "sleep"
          /\ pc[q] # "idle"
          /\ \A p \in Reqs \ {r, q} : pc[p] # "generate" )
        => C25_CanStep(q)

\* one request is in its backoff sleep while another one, past its first
\* completion, has a tool call under way
C25_Witness ==
    \E r \in Reqs : \E q \in Reqs \ {r} :
        /\ pc[r] = "sleep"
        /\ wait_time[r] # NoWait
        /\ pc[q] = "tool"
        /\ agent_scratchpad[q] # <<>>

(***************************************************************************)
(* C26.  The names of the registered tools are unique ignoring letter      *)
(* case, and the registry is the same list throughout; an Action name      *)
(* resolves to the one tool whose name equals it ignoring case, which is   *)
(* then invoked, and to not-found when no tool has that name.              *)
(***************************************************************************)
\* the tools whose name equals action_name when letter case is ignored
C26_SameNameIgnoringCase(action_name) ==
    {i \in 1..Len(tools) : Lower(tools[i].name) = Lower(action_name)}

C26_NamesUnique ==
    \A i, j \in 1..Len(tools) :
        i # j => Lower(tools[i].name) # Lower(tools[j].name)

C26_ResolveStep ==
    \A r \in Reqs :
        ( /\ TakesCompletion(r)
          /\ ~HasFinalAnswer(Completion(r))
          /\ ParseAction(Completion(r)).ok ) =>
            \A action_name \in {ParseAction(Completion(r)).action_name} :
            \A same \in {C26_SameNameIgnoringCase(action_name)} :
                IF same = {}
                THEN /\ pc'[r] # "tool"
                     /\ invoked'[r] = invoked[r]
                     /\ Contains(agent_scratchpad'[r][Len(agent_scratchpad'[r])],
                                 ToolNotFoundMiddle)
                ELSE /\ pc'[r] = "tool"
                     /\ same = {pending'[r].tool}
                     /\ invoked'[r] = Append(invoked[r], tools[pending'[r].tool].name)

\* the tool a request is running is the only one with the Action's name
C26_RunsTheNamedTool ==
    /\ C26_NamesUnique
    /\ \A r \in Reqs :
          pc[r] = "tool" =>
              C26_SameNameIgnoringCase(pending[r].action_name) = {pending[r].tool}

C26_RegistryResolvesIgnoringCase ==
    /\ []C26_RunsTheNamedTool
    /\ [][C26_ResolveStep]_vars

\* the completion wrote SEND_EMAIL and the tool send_email is being run
C26_Witness ==
    \E r \in Reqs :
        /\ pc[r] = "tool"
        /\ pending[r].action_name # tools[pending[r].tool].name
        /\ Lower(pending[r].action_name) = tools[pending[r].tool].name
        /\ agent_scratchpad[r][Len(agent_scratchpad[r])] = txt_SEND_EMAIL

(***************************************************************************)
(* C27.  Once send_email has been resolved and invoked in a request whose  *)
(* message mentions email (get_weather in one that mentions weather), a    *)
(* later Final Answer of the request is not rejected for missing that      *)
(* tool, in whatever letter case the completion wrote the Action name.     *)
(***************************************************************************)
\* every tool the verification asks for in request r has been run by r
C27_RequiredToolsInvoked(r) ==
    /\ MentionsEmail(message[r]) \/ MentionsWeather(message[r])
    /\ MentionsEmail(message[r]) => InList(name_send_email, invoked[r])
    /\ MentionsWeather(message[r]) => InList(name_get_weather, invoked[r])

C27_InvokedToolSatisfiesVerification ==
    [][\A r \in Reqs :
        ( /\ TakesCompletion(r)
          /\ HasFinalAnswer(Completion(r))
          /\ C27_RequiredToolsInvoked(r) ) =>
            /\ pc'[r] = "return_final"
            /\ agent_scratchpad'[r] = Append(agent_scratchpad[r], Completion(r))]_vars

(***************************************************************************)
(* C28.  Within a request generate_content is called only through          *)
(* _generate_with_retry, so every endpoint call is covered by the          *)
(* rate-limit backoff, and a request makes at most max_iterations x        *)
(* max_retries endpoint calls, whichever tools it invokes.                 *)
(***************************************************************************)
C28_EndpointOnlyThroughRetryWrapper ==
    \A r \in Reqs :
        /\ direct_calls[r] = 0
        /\ wrapper[r].calls <= max_retries
        /\ generate_calls[r] <= max_iterations

(***************************************************************************)
(* C29.  Whenever an Action resolves to a registered tool and the tool     *)
(* returns, the name of the Action is appended to tools_used and the       *)
(* Observation appended is the tool's result, also when the result is      *)
(* empty; the 'You must provide an Action and Action Input' Observation is *)
(* appended only when the completion lacks the Action: or the Action       *)
(* Input: line.                                                            *)
(***************************************************************************)
\* in this step the tool awaited by request r returns a text
C29_ToolReturns(r) ==
    /\ pc[r] = "tool"
    /\ Len(outcomes'[r]) = Len(outcomes[r]) + 1
    /\ outcomes'[r][Len(outcomes'[r])].kind = "return"

C29_ToolResultIsTheObservation ==
    [][\A r \in Reqs :
        /\ C29_ToolReturns(r) =>
              /\ tools_used'[r] = Append(tools_used[r], pending[r].action_name)
              /\ agent_scratchpad'[r] =
                    Append(agent_scratchpad[r],
                           ObservationPrefix \o outcomes'[r][Len(outcomes'[r])].text
                               \o Newline)
        /\ ( /\ Len(agent_scratchpad'[r]) > Len(agent_scratchpad[r])
             /\ agent_scratchpad'[r][Len(agent_scratchpad'[r])] = FormatObservation ) =>
              /\ TakesCompletion(r)
              /\ ~ParseAction(Completion(r)).ok]_vars

(***************************************************************************)
(* C30.  Every cached response comes from a request that invoked no tool:  *)
(* when a Final Answer is accepted while tools_used is not empty (a        *)
(* request on the general prompt that went over to the Action grammar),    *)
(* nothing is written to the cache.                                        *)
(***************************************************************************)
C30_NoCacheWriteAfterToolUse ==
    [][\A r \in Reqs :
        ( /\ TakesCompletion(r)
          /\ pc'[r] = "return_final"
          /\ tools_used[r] # <<>> ) =>
            response_cache' = response_cache]_vars

=============================================================================
